---- MODULE Spec2Model ----
(***************************************************************************)
(* Model of the ballistics engine of wows-ballistics-calc                  *)
(* (src/src/scraper.js: physics, utils and config sections).               *)
(*                                                                         *)
(* JavaScript numbers are IEEE doubles; TLC has 32-bit integers.  The      *)
(* model keeps every quantity as a scaled integer:                         *)
(*   positions       1e-4 m          velocities      1e-5 m/s              *)
(*   accelerations   1e-6 m/s^2      dimensionless   2^-30 (Q30)           *)
(*   launch angles   45/2^17 degree  impact angles   1e-7 degree           *)
(*   reported times  1e-4 s          ranges in km    1e-6 km               *)
(* The loop clock `time` of simulateTrajectory is the exception: it is the *)
(* exact IEEE double the code accumulates, held in three 22-bit limbs.     *)
(***************************************************************************)
EXTENDS Integers, Sequences, FiniteSets, TLC

\* ------------------------------------------------------------------------
\* Fixed-point helpers
\* ------------------------------------------------------------------------
H15 == 32 * 1024
Q30 == H15 * H15

Abs(a) == IF a < 0 THEN -a ELSE a

\* a * b / 2^30 for a, b >= 0, by 15-bit halves (every product fits 31 bits).
MulHalves(ah, al, bh, bl) ==
  ah * bh + (ah * bl) \div H15 + (al * bh) \div H15 + (al * bl) \div Q30

MulQ(a, b) == MulHalves(a \div H15, a % H15, b \div H15, b % H15)

\* Signed a * b / 2^30 (rounds toward zero).
SMulQ(a, b) ==
  IF (a < 0) = (b < 0) THEN MulQ(Abs(a), Abs(b)) ELSE -MulQ(Abs(a), Abs(b))

\* 2^60 / b for b in (2^29, 2^31), by Newton's iteration x := x + x * (1 - b * x)
\* from the first guess 2 - b; n caps the number of iterations.
RECURSIVE RecipLoop(_, _, _)
RecipNext(x, x2, b, n) == IF x2 = x \/ n = 0 THEN x ELSE RecipLoop(x2, b, n - 1)

RecipLoop(x, b, n) == RecipNext(x, x + SMulQ(x, Q30 - MulQ(b, x)), b, n)

MaxNewton == 8

\* a * 2^30 / b.
DivQ(a, b) == MulQ(a, RecipLoop(Q30 + (Q30 - b), b, MaxNewton))

\* a / b rounded to nearest (b > 0).
RDiv(a, b) == (a + b \div 2) \div b

\* a * num / den without overflowing a * num.
MulDiv(a, num, den) == (a \div den) * num + ((a % den) * num) \div den

\* ------------------------------------------------------------------------
\* CORDIC in vectoring mode: the model's sqrt(x^2 + y^2) and atan2(y, x)
\* ------------------------------------------------------------------------
\* Iterations spent on a magnitude (it converges as 4^-i) and on an angle.
HypotIters == 16
AtanIters == 28

\* atan(2^-i) in 1e-7 degree, i = 0, 1, ...
AtanTable ==
  << 450000000, 265650512, 140362435, 71250163, 35763344, 17899106, 8951737,
     4476142, 2238105, 1119057, 559529, 279765, 139882, 69941, 34971, 17485,
     8743, 4371, 2186, 1093, 546, 273, 137, 68, 34, 17, 9, 4, 2, 1 >>

\* 2^30 / prod sqrt(1 + 4^-i): the inverse CORDIC gain (the product has
\* converged to Q30 precision after 16 factors).
InvGainQ == 652032874

\* Rotate (x, y) onto the x axis: i is the iteration, p = 2^i, n the last one.
RECURSIVE Cordic(_, _, _, _, _, _)
Cordic(x, y, z, i, p, n) ==
  IF i = n THEN [mag |-> x, ang |-> z]
  ELSE IF y >= 0
       THEN Cordic(x + (y \div p), y - (x \div p), z + AtanTable[i + 1], i + 1, 2 * p, n)
       ELSE Cordic(x - (y \div p), y + (x \div p), z - AtanTable[i + 1], i + 1, 2 * p, n)

\* Math.sqrt(vx*vx + vy*vy) in velocity units.
Hypot(vx, vy) ==
  (MulQ(Cordic(Abs(vx) * 8, Abs(vy) * 8, 0, 0, 1, HypotIters).mag, InvGainQ) + 4) \div 8

\* Math.atan2(y, x) * 180 / Math.PI in 1e-7 degree.
Atan2Deg(y, x) ==
  IF x >= 0 THEN Cordic(x * 8, y * 8, 0, 0, 1, AtanIters).ang
  ELSE IF y >= 0 THEN 1800000000 - Cordic((-x) * 8, y * 8, 0, 0, 1, AtanIters).ang
       ELSE -1800000000 - Cordic((-x) * 8, y * 8, 0, 0, 1, AtanIters).ang

\* ------------------------------------------------------------------------
\* Math.sin / Math.cos of a launch angle (angle units -> Q30)
\* ------------------------------------------------------------------------
AngleUnits45 == 128 * 1024          \* 45 degrees in angle units

\* Radians in Q30: a * (pi/4) * 2^30 / 2^17 = a * 6433.98175...
Radians(a) == a * 6433 + (a * 8042) \div 8192

RECURSIVE SinCosLoop(_, _, _, _, _, _)
SinCosNext(th2, s, c, ts2, tc2, n) ==
  IF tc2 = 0 /\ ts2 = 0 THEN [sin |-> s, cos |-> c]
  ELSE IF n % 2 = 1
       THEN SinCosLoop(th2, s - ts2, c - tc2, ts2, tc2, n + 1)
       ELSE SinCosLoop(th2, s + ts2, c + tc2, ts2, tc2, n + 1)

\* The Taylor series of sin and cos: s, c the partial sums, ts, tc the last
\* terms, th2 the squared angle.
SinCosLoop(th2, s, c, ts, tc, n) ==
  SinCosNext(th2, s, c, MulQ(ts, th2) \div ((2 * n) * (2 * n + 1)),
             MulQ(tc, th2) \div ((2 * n - 1) * (2 * n)), n)

SinCosOf(th) == SinCosLoop(MulQ(th, th), th, Q30, th, Q30, 1)

SinCos(a) == SinCosOf(Radians(a))

\* ------------------------------------------------------------------------
\* PHYSICS constants (config section), in the units above
\* ------------------------------------------------------------------------
\* PHYSICS.g = 9.81 m/s^2 in 1e-6 m/s^2
G == 9810000
\* PHYSICS.L / PHYSICS.t0 = 0.0065 / 288.15 per metre, per position unit,
\* in Q30 * 2^28 (T/t0 = 1 - 4 * MulQ(y, LapseQ) / 2^30)
LapseQ == 650181310
\* fractional part of PHYSICS.gMRL = g*M/(R*L) = 5.25757669..., in Q30
GmrlFracQ == 276570869
\* integer part of PHYSICS.gMRL
GmrlInt == 5
\* p0 * M / (R * t0) = 1.22497705... kg/m^3, in Q30
Rho0Q == 1315309098
\* PHYSICS.timeMultiplier = 2.75 = 11/4
TimeMultNum == 11
TimeMultDen == 4

\* ------------------------------------------------------------------------
\* getAirDensity
\* ------------------------------------------------------------------------
MaxSeriesTerms == 60

\* (1 - u)^GmrlFrac by the binomial series; acc, the n-th term t and u in Q30.
RECURSIVE PowFracLoop(_, _, _, _)
PowFracLoop(acc, t, u, n) ==
  IF t = 0 \/ n >= MaxSeriesTerms THEN acc
  ELSE PowFracLoop(acc - t,
                   \* t * u * (n - frac) / (n + 1)
                   SMulQ(SMulQ(t, u), Q30 - (Q30 + GmrlFracQ) \div (n + 1)),
                   u, n + 1)

RECURSIVE PowInt(_, _)
PowInt(r, n) == IF n = 0 THEN Q30 ELSE MulQ(PowInt(r, n - 1), r)

\* Math.pow(T / t0, gMRL) for the ratio r = T/t0 = 1 - u, in Q30.
PowGmrl(r, u) == MulQ(PowInt(r, GmrlInt), PowFracLoop(Q30, SMulQ(GmrlFracQ, u), u, 1))

\* Air density in Q30 kg/m^3 at altitude y (position units).
\*   T = t0 - L*y; p = p0 * (T/t0)^gMRL; rho = p*M / (R*T)
\* T is held as the ratio T/t0 and p as the ratio p/p0.
\* u is L * y / t0.
DensityAt(u) == DivQ(MulQ(PowGmrl(Q30 - u, u), Rho0Q), Q30 - u)

getAirDensity(y) == DensityAt(4 * SMulQ(y, LapseQ))

\* ------------------------------------------------------------------------
\* getCombinedDrag: 0.5 * Cd * PI * (caliber/2)^2 / mass
\* Cd in thousandths, caliber in mm, mass in kg; result k * 1e-4 * 2^57.
\* ------------------------------------------------------------------------
\* 0.5 * PI / 4 * 1e-6 (mm^2 -> m^2) * 1e-3 (Cd) * 1e-4 * 2^57 * 1e-3 * 2^30 / 8
DragScaleQ == 759590495

getCombinedDrag(Cd, caliber, mass) ==
  8 * MulQ(MulDiv(Cd * caliber * caliber, 1000, mass), DragScaleQ)

\* ------------------------------------------------------------------------
\* derivatives and rk4Step
\* ------------------------------------------------------------------------
\* q is kRho * speed, per second, in Q30 * 10.
Decelerate(state, q) ==
  [dx  |-> state.vx,
   dy  |-> state.vy,
   dvx |-> -SMulQ(state.vx, q),
   dvy |-> -G - SMulQ(state.vy, q)]

derivatives(state, k) ==
  Decelerate(state,
             8 * MulQ(Hypot(state.vx, state.vy), MulQ(k, getAirDensity(state.y))))

\* state + d / den, component-wise.
Advance(state, d, den) ==
  [x  |-> state.x + RDiv(d.dx, den),
   y  |-> state.y + RDiv(d.dy, den),
   vx |-> state.vx + RDiv(d.dvx, den),
   vy |-> state.vy + RDiv(d.dvy, den)]

\* One RK4 step of dt = 1/dtInv seconds.  A derivative is 10 times finer
\* than the quantity it advances, so dt * d is d / (10 * dtInv).
Rk4Sum(state, dtInv, k1, k2, k3, k4) ==
  [x  |-> state.x + RDiv(k1.dx + 2 * k2.dx + 2 * k3.dx + k4.dx, 60 * dtInv),
   y  |-> state.y + RDiv(k1.dy + 2 * k2.dy + 2 * k3.dy + k4.dy, 60 * dtInv),
   vx |-> state.vx + RDiv(k1.dvx + 2 * k2.dvx + 2 * k3.dvx + k4.dvx, 60 * dtInv),
   vy |-> state.vy + RDiv(k1.dvy + 2 * k2.dvy + 2 * k3.dvy + k4.dvy, 60 * dtInv)]

Rk4Fourth(state, dtInv, k, k1, k2, k3) ==
  Rk4Sum(state, dtInv, k1, k2, k3, derivatives(Advance(state, k3, 10 * dtInv), k))

Rk4Third(state, dtInv, k, k1, k2) ==
  Rk4Fourth(state, dtInv, k, k1, k2, derivatives(Advance(state, k2, 20 * dtInv), k))

Rk4Second(state, dtInv, k, k1) ==
  Rk4Third(state, dtInv, k, k1, derivatives(Advance(state, k1, 20 * dtInv), k))

rk4Step(state, dtInv, k) == Rk4Second(state, dtInv, k, derivatives(state, k))

\* ------------------------------------------------------------------------
\* The loop clock: `time += dt` in IEEE double arithmetic, exactly.
\* A time is [h, m, l], the value (h * 2^44 + m * 2^22 + l) * 2^-58 seconds.
\* ------------------------------------------------------------------------
Limb == 4 * 1024 * 1024

TimeZero == [h |-> 0, m |-> 0, l |-> 0]

\* The double nearest 0.02: 5764607523034235 * 2^-58.
DtDouble == [h |-> 327, m |-> 2852126, l |-> 3019899]

RECURSIVE FloorLog2(_)
FloorLog2(n) == IF n <= 1 THEN 0 ELSE 1 + FloorLog2(n \div 2)

CarryMiddle(t, m2) == [h |-> t.h + m2 \div Limb, m |-> m2 % Limb, l |-> t.l % Limb]

Carry(t) == CarryMiddle(t, t.m + t.l \div Limb)

\* Round away the remainder rem below the unit ulp, ties to even.
RoundRemainder(t, ulp, rem) ==
  IF ulp = 1 \/ rem = 0 THEN t
  ELSE Carry([h |-> t.h, m |-> t.m,
              l |-> t.l - rem
                    + (IF rem > ulp \div 2
                          \/ (rem = ulp \div 2 /\ (t.l \div ulp) % 2 = 1)
                       THEN ulp ELSE 0)])

RoundToUlp(t, ulp) == RoundRemainder(t, ulp, t.l % ulp)

\* Round the exact sum to 53 significant bits, ties to even.
RoundDouble(t) ==
  RoundToUlp(t, IF t.h >= 512 THEN 2 ^ (FloorLog2(t.h) - 8) ELSE 1)

TimeAdd(t, d) ==
  RoundDouble(Carry([h |-> t.h + d.h, m |-> t.m + d.m, l |-> t.l + d.l]))

\* time < 120 (120 s = 120 * 2^14 in the high limb)
TimeCeiling == 120
TimeBelowCeiling(t) == t.h < TimeCeiling * 16384

\* A double time in 1e-4 s, rounded to nearest.
TimeFixed(t) ==
  (t.h \div 16384) * 10000
    + ((t.h % 16384) * 10000 + ((t.m \div 4096) * 10000) \div 1024 + 8192) \div 16384

\* ------------------------------------------------------------------------
\* Inputs
\* ------------------------------------------------------------------------
\* Shell parameters {muzzleVelocity m/s, caliber mm, mass kg, dragCoefficient
\* in thousandths}: a 203 mm cruiser shell, a slow light shell whose flights
\* are short, and a fast shell without drag that stays up past the ceiling.
ShellA == [muzzleVelocity |-> 830, caliber |-> 203, mass |-> 118, dragCoefficient |-> 300]
ShellS == [muzzleVelocity |-> 40, caliber |-> 100, mass |-> 10, dragCoefficient |-> 300]
ShellZ == [muzzleVelocity |-> 900, caliber |-> 203, mass |-> 118, dragCoefficient |-> 0]

\* The direct simulateTrajectory calls (launch angle in angle units).
DirectCalls ==
  << [angle |-> AngleUnits45, shell |-> ShellZ],
     [angle |-> 0, shell |-> ShellA],
     [angle |-> AngleUnits45, shell |-> ShellS],
     [angle |-> 1200, shell |-> ShellA] >>
NumDirect == 3

\* The getBallisticsAtRange calls (target range in 1e-6 km).
Queries ==
  << [targetRangeKm |-> 1000000, shell |-> ShellA],
     [targetRangeKm |-> 1000000, shell |-> ShellS],
     [targetRangeKm |-> 500, shell |-> ShellS],
     [targetRangeKm |-> 100000, shell |-> ShellS] >>
NumQueries == 3

VARIABLES
  pc,            \* "idle", "sim", "find", "findupd", "ballret", "done"
  caller,        \* who called simulateTrajectory: "direct", "find", "final"
  shell,         \* shellParams of the running call
  angle,         \* launchAngleDeg of the running simulation
  kdrag,         \* k of the running simulation
  state,         \* {x, y, vx, vy}
  time,          \* loop clock (IEEE double)
  steps,         \* number of loop iterations performed by the running simulation
  firstStop,     \* the first state of the running simulation that fails the loop test
  result,        \* the value returned by the last simulateTrajectory call
  targetRangeKm, \* argument of getBallisticsAtRange
  targetRangeM,  \* targetRangeMeters of findLaunchAngle (position units)
  low,           \* bracket of findLaunchAngle (angle units)
  high,
  mid,
  ballistics,    \* the value returned by getBallisticsAtRange
  probes,        \* the simulateTrajectory calls completed in the running call
  ship,          \* arguments of calculateModifiedRange
  modifiedRange, \* the value returned by calculateModifiedRange (1e-6 km)
  call,          \* the running call of a function of the utils section
  ret,           \* the value it returned
  tables,        \* the scraped tables, cells already through parseNumeric
  shipData,      \* the value returned by scrapeShipData, in insertion order
  issues,        \* the value returned by validateScrapedData
  mainPc,        \* position of main
  shipIndex,     \* position of the loop over Object.entries(shipData)
  shellIndex,    \* position of the loop over Object.entries(data.shells)
  halfBallistics,
  halfFactor,
  results,       \* results of main, in insertion order
  successCount,
  errorCount,
  log,           \* the calls main has made, with their values
  scrapePc,      \* position of scrapeShipData
  browser,       \* "none", "open", "closed"
  closeCalls,    \* number of browser.close() calls
  outcome,       \* how the try block of scrapeShipData ended
  processedCount,
  sonarData,     \* the promise of scrapeSonarData: its status and the submarines
  files,         \* the files written, in the order of the writes
  exitCode,      \* the code of process.exit, 0 while none was called
  thrown         \* the ships whose processing threw

simVars == << caller, shell, angle, kdrag, state, time, steps, firstStop, result >>
findVars == << targetRangeKm, targetRangeM, low, high, mid, ballistics >>
rangeVars == << ship, modifiedRange >>
utilVars == << call, ret >>
mainVars == << tables, shipData, issues, mainPc, shipIndex, shellIndex, halfBallistics,
              halfFactor, results, successCount, errorCount, log >>
scrapeVars == << scrapePc, browser, closeCalls, outcome, processedCount >>
outVars == << sonarData, files, exitCode, thrown >>
hostVars == << rangeVars, utilVars, mainVars, scrapeVars, outVars >>
vars == << pc, simVars, findVars, probes, hostVars >>

NoShell == [muzzleVelocity |-> 0, caliber |-> 0, mass |-> 1, dragCoefficient |-> 0]
NoState == [x |-> 0, y |-> 0, vx |-> 0, vy |-> 0]
NoStop == [set |-> FALSE, x |-> 0, steps |-> 0]
NoResult ==
  [range |-> 0, flightTime |-> 0, adjustedFlightTime |-> 0, impactAngle |-> 0,
   impactVelocity |-> 0]
NoBallistics == [flightTime |-> 0, impactAngle |-> 0, impactVelocity |-> 0]

\* ------------------------------------------------------------------------
\* simulateTrajectory
\* ------------------------------------------------------------------------
\* dt = 0.02 s = 1 / StepsPerSecond
StepsPerSecond == 50

\* The state before the loop.
Launch(v, sc) == [x |-> 0, y |-> 0, vx |-> MulQ(v, sc.cos), vy |-> MulQ(v, sc.sin)]

InitialState(launchAngle, shellParams) ==
  Launch(shellParams.muzzleVelocity * 100000, SinCos(launchAngle))

\* The loop test with || for &&.
LoopContinuesEither(s, t) == s.y >= 0 \/ TimeBelowCeiling(t)

\* The loop test with y > 0 for y >= 0.
LoopContinuesStrict(s, t) == s.y > 0 /\ TimeBelowCeiling(t)

\* while (state.y >= 0 && time < 120)
LoopContinues(s, t) == s.y >= 0 /\ TimeBelowCeiling(t)

\* time / PHYSICS.timeMultiplier
AdjustTime(t) == RDiv(t * TimeMultDen, TimeMultNum)

\* The returned object.
TrajectoryResult(s, t) ==
  [range              |-> s.x,
   flightTime         |-> TimeFixed(t),
   adjustedFlightTime |-> AdjustTime(TimeFixed(t)),
   impactAngle        |-> Atan2Deg(-s.vy, s.vx),
   impactVelocity     |-> Hypot(s.vx, s.vy)]

\* Entry of simulateTrajectory(a, sh), called by `who`.
StartSim(a, sh, who) ==
  /\ pc' = "sim"
  /\ caller' = who
  /\ angle' = a
  /\ kdrag' = getCombinedDrag(sh.dragCoefficient, sh.caliber, sh.mass)
  /\ state' = InitialState(a, sh)
  /\ time' = TimeZero
  /\ steps' = 0
  /\ firstStop' = NoStop

CallSimulate ==
  /\ pc = "idle"
  /\ \E i \in 1..NumDirect :
       /\ shell' = DirectCalls[i].shell
       /\ StartSim(DirectCalls[i].angle, DirectCalls[i].shell, "direct")
  /\ UNCHANGED << result, findVars, probes, hostVars >>

\* One iteration of the loop.
SimStep ==
  /\ pc = "sim"
  /\ LoopContinues(state, time)
  /\ state' = rk4Step(state, StepsPerSecond, kdrag)
  /\ time' = TimeAdd(time, DtDouble)
  /\ steps' = steps + 1
  /\ firstStop' =
       IF ~firstStop.set /\ (state'.y < 0 \/ ~TimeBelowCeiling(time'))
       THEN [set |-> TRUE, x |-> state'.x, steps |-> steps']
       ELSE firstStop
  /\ UNCHANGED << pc, caller, shell, angle, kdrag, result, findVars, probes, hostVars >>

\* Loop exit and return to the caller.
SimReturn ==
  /\ pc = "sim"
  /\ ~LoopContinues(state, time)
  /\ result' = TrajectoryResult(state, time)
  /\ probes' = Append(probes, [angle |-> angle, range |-> state.x, steps |-> steps])
  /\ pc' = CASE caller = "direct" -> "done"
             [] caller = "find"   -> "findupd"
             [] caller = "final"  -> "ballret"
  /\ UNCHANGED << caller, shell, angle, kdrag, state, time, steps, firstStop, findVars, hostVars >>

\* ------------------------------------------------------------------------
\* findLaunchAngle and getBallisticsAtRange
\* ------------------------------------------------------------------------
\* The loop test with a tolerance of 0.01 degree.
WiderThanCoarseTolerance(w) == w * 45 > AngleUnits45 \div 100

\* high - low > 0.001 degrees, i.e. w * 45 / 2^17 > 0.001.  w * 45 is an
\* integer, so it exceeds 131.072 exactly when it exceeds 131.
WiderThanTolerance(w) == w * 45 > AngleUnits45 \div 1000

\* The bisection update with its branches exchanged.
BisectSwapped(lo, hi, m, range, target) ==
  IF range < target THEN [low |-> lo, high |-> m] ELSE [low |-> m, high |-> hi]

\* (low + high) / 2
Midpoint(lo, hi) == (lo + hi) \div 2

\* A bracket that ends at 90 degrees.
BracketHighRightAngle == 2 * AngleUnits45

\* The bracket starts where the previous call left its lower end.
BracketLowCarried == low

\* let low = 0, high = 45
BracketLow == 0
BracketHigh == AngleUnits45

\* if (result.range < targetRangeMeters) low = mid; else high = mid;
Bisect(lo, hi, m, range, target) ==
  IF range < target THEN [low |-> m, high |-> hi] ELSE [low |-> lo, high |-> m]

\* targetRangeKm * 1000, in position units (1e-6 km is 10 position units).
KmToM(km) == (km * 1000) \div 100

\* getBallisticsAtRange up to the first loop test of findLaunchAngle.
CallGetBallistics ==
  /\ pc = "idle"
  /\ \E i \in 1..NumQueries :
       /\ shell' = Queries[i].shell
       /\ targetRangeKm' = Queries[i].targetRangeKm
       /\ targetRangeM' = KmToM(Queries[i].targetRangeKm)
  /\ low' = BracketLow
  /\ high' = BracketHigh
  /\ pc' = "find"
  /\ UNCHANGED << caller, angle, kdrag, state, time, steps, firstStop, result,
                  mid, ballistics, probes, hostVars >>

\* Loop test true: simulate at the midpoint.
FindIterate ==
  /\ pc = "find"
  /\ WiderThanTolerance(high - low)
  /\ mid' = Midpoint(low, high)
  /\ StartSim(Midpoint(low, high), shell, "find")
  /\ UNCHANGED << shell, result, targetRangeKm, targetRangeM, low, high, ballistics,
                  probes, hostVars >>

\* The if/else on the simulated range.
FindUpdate ==
  /\ pc = "findupd"
  /\ low' = Bisect(low, high, mid, result.range, targetRangeM).low
  /\ high' = Bisect(low, high, mid, result.range, targetRangeM).high
  /\ pc' = "find"
  /\ UNCHANGED << simVars, targetRangeKm, targetRangeM, mid, ballistics, probes, hostVars >>

\* Loop test false: findLaunchAngle returns (low + high) / 2 and
\* getBallisticsAtRange simulates once more at that angle.
FindReturn ==
  /\ pc = "find"
  /\ ~WiderThanTolerance(high - low)
  /\ StartSim(Midpoint(low, high), shell, "final")
  /\ UNCHANGED << shell, result, findVars, probes, hostVars >>

\* The object getBallisticsAtRange returns.
\* The result with the raw simulated flight time.
BallisticsResultRaw(r) ==
  [flightTime |-> r.flightTime,
   impactAngle |-> r.impactAngle,
   impactVelocity |-> r.impactVelocity]

BallisticsResult(r) ==
  [flightTime     |-> r.adjustedFlightTime,
   impactAngle    |-> r.impactAngle,
   impactVelocity |-> r.impactVelocity]

BallisticsReturn ==
  /\ pc = "ballret"
  /\ ballistics' = BallisticsResult(result)
  /\ pc' = "done"
  /\ UNCHANGED << simVars, targetRangeKm, targetRangeM, low, high, mid, probes, hostVars >>

\* ------------------------------------------------------------------------
\* calculateModifiedRange.  Ranges are in 1e-6 km, multipliers in percent.
\* ------------------------------------------------------------------------
aftMultiplier == 120
spotterMultiplier == 120
aprm1Multiplier == 116

\* The table looked up by the normalized (underscored) ship name.
uniqueUpgradesNormalized(shipName) == IF shipName = "Henri_IV" THEN 105 ELSE 0

\* MODIFIERS.uniqueUpgrades?.[shipName]; 0 stands for undefined.
uniqueUpgrades(shipName) == IF shipName = "Henri IV" THEN 105 ELSE 0

\* range * multiplier
Scale(range, percent) == MulDiv(range, percent, 100)

\* The second if with the spotter branch not chained by else and assigned
\* from the base range.
ClassModifierUnchained(maxRange, baseMaxRange, shipClass, hasSpotter) ==
  LET afterClass == IF shipClass = "DD"
                    THEN Scale(baseMaxRange, aftMultiplier)
                    ELSE maxRange
  IN IF hasSpotter THEN Scale(afterClass, spotterMultiplier) ELSE afterClass

\* The second if with the spotter multiplier assigned from the base range.
ClassModifierFromBase(maxRange, baseMaxRange, shipClass, hasSpotter) ==
  IF shipClass = "DD"
  THEN Scale(baseMaxRange, aftMultiplier)
  ELSE IF shipClass \in {"BB", "CA", "CB", "CL"} /\ hasSpotter
       THEN Scale(baseMaxRange, spotterMultiplier)
       ELSE maxRange

\* if (shipClass === 'DD') ... else if ([...].includes(shipClass) && hasSpotter) ...
ClassModifier(maxRange, baseMaxRange, shipClass, hasSpotter) ==
  IF shipClass = "DD"
  THEN Scale(baseMaxRange, aftMultiplier)
  ELSE IF shipClass \in {"BB", "CA", "CB", "CL"} /\ hasSpotter
       THEN Scale(maxRange, spotterMultiplier)
       ELSE maxRange

calculateModifiedRange(baseMaxRange, shipClass, hasSpotter, shipName, nation) ==
  LET afterNation == IF nation = "U.S.A." /\ shipClass = "BB"
                     THEN Scale(baseMaxRange, aprm1Multiplier)
                     ELSE baseMaxRange
      afterClass == ClassModifier(afterNation, baseMaxRange, shipClass, hasSpotter)
      uniqueMultiplier == uniqueUpgrades(shipName)
  IN IF uniqueMultiplier # 0
     THEN Scale(afterClass, uniqueMultiplier)
     ELSE afterClass

NoShip == [baseMaxRange |-> 0, class |-> "", hasSpotter |-> FALSE,
           name |-> "", nation |-> ""]

BaseRanges == {11980000, 16500000, 20060000, 23670000}
ShipClasses == {"BB", "CA", "CB", "CL", "DD", "SS", "CV"}
ShipNames == {"Henri IV", "Montana", "Gearing"}
Nations == {"U.S.A.", "Japan", "France"}

Ships ==
  [baseMaxRange : BaseRanges, class : ShipClasses, hasSpotter : BOOLEAN,
   name : ShipNames, nation : Nations]

\* One call of calculateModifiedRange.
CallModifiedRange ==
  /\ pc = "idle"
  /\ modifiedRange' = calculateModifiedRange(ship.baseMaxRange, ship.class,
                                             ship.hasSpotter, ship.name, ship.nation)
  /\ pc' = "done"
  /\ UNCHANGED << ship, simVars, findVars, probes, utilVars, mainVars, scrapeVars, outVars >>

NoCall == [fn |-> "none"]
NoReturn == [fn |-> "none"]

\* No physics call is running.
PhysicsIdle ==
  /\ pc = "idle"
  /\ caller = "direct"
  /\ shell = NoShell
  /\ angle = 0
  /\ kdrag = 0
  /\ state = NoState
  /\ time = TimeZero
  /\ steps = 0
  /\ firstStop = NoStop
  /\ result = NoResult
  /\ targetRangeKm = 0
  /\ targetRangeM = 0
  /\ low = 0
  /\ high = 0
  /\ mid = 0
  /\ ballistics = NoBallistics
  /\ probes = << >>

RangeIdle == ship = NoShip /\ modifiedRange = 0
UtilIdle == call = NoCall /\ ret = NoReturn

\* ------------------------------------------------------------------------
\* calculateFactor.  rangeKm in 1e-6 km, flightTime in 1e-4 s, impactAngleDeg
\* in 1e-7 degree; the factor in thousandths.
\* ------------------------------------------------------------------------
\* floor(a * b / c) with its remainder, for a, b >= 0 and 0 < c < 2^30, by
\* doubling along the bits of b.
Doubled(h, c) == [q |-> 2 * h.q + (2 * h.r) \div c, r |-> (2 * h.r) % c]

AddOnce(h, a, c) ==
  [q |-> h.q + (a \div c) + (h.r + (a % c)) \div c, r |-> (h.r + (a % c)) % c]

RECURSIVE MulDivExact(_, _, _)
MulDivExact(a, b, c) ==
  IF b = 0 THEN [q |-> 0, r |-> 0]
  ELSE AddOnce(Doubled(MulDivExact(a, b \div 2, c), c),
               IF b % 2 = 1 THEN a ELSE 0, c)

\* Math.floor in the place of Math.round.
RoundDown(h, c) == h.q

\* Math.round of the quotient h of a division by c.
RoundHalfUp(h, c) == IF 2 * h.r >= c THEN h.q + 1 ELSE h.q

Degree7 == 10000000

\* The fraction of PI / 180 * 1e-7 * 2^30 = 1.874033..., in Q30.
RadianFracQ == 938485803

\* (impactAngleDeg * Math.PI) / 180 in Q30, for angles up to 45 degrees.
RadiansOfDegrees(a) == a + MulQ(a, RadianFracQ)

\* Math.cos of an angle of 0 to 180 degrees, in Q30, reduced to [0, 45].
CosDegrees(a) ==
  IF a <= 45 * Degree7 THEN SinCosOf(RadiansOfDegrees(a)).cos
  ELSE IF a <= 90 * Degree7 THEN SinCosOf(RadiansOfDegrees(90 * Degree7 - a)).sin
  ELSE IF a <= 135 * Degree7 THEN -SinCosOf(RadiansOfDegrees(a - 90 * Degree7)).sin
  ELSE -SinCosOf(RadiansOfDegrees(180 * Degree7 - a)).cos

\* 0.0872 in Q30 (93630287.05...).
CosThresholdSwapped == 782 * 107374
CosThresholdQ == 93630287

\* if (rangeKm <= 0 || flightTime <= 0) return null;
InvalidInput(rangeKm, flightTime) == rangeKm <= 0 \/ flightTime <= 0

\* if (cosAngle < 0.0872) return null;  An integer is below 93630287.05
\* exactly when it is at most 93630287.
TooSteep(cosAngle) == cosAngle <= CosThresholdQ

Null == [null |-> TRUE, value |-> 0]
Number(v) == [null |-> FALSE, value |-> v]

\* Math.round(rawFactor * 1000) with rawFactor = (rangeKm * 1000 /
\* (flightTime * cosAngle)) / 32: rangeKm * 320000 / (flightTime * cosAngle * 1024)
\* in the units above.
RoundedFactor(rangeKm, denominator) ==
  RoundHalfUp(MulDivExact(rangeKm, 320000, denominator), denominator)

FactorOf(rangeKm, flightTime, cosAngle) ==
  IF TooSteep(cosAngle) THEN Null
  ELSE Number(RoundedFactor(rangeKm, MulQ(flightTime * 1024, cosAngle)))

calculateFactor(rangeKm, flightTime, impactAngleDeg) ==
  IF InvalidInput(rangeKm, flightTime) THEN Null
  ELSE FactorOf(rangeKm, flightTime, CosDegrees(Abs(impactAngleDeg)))

FactorRanges == {-1000000, 0, 100, 5000000, 11980000, 23670000}
FactorTimes == {-10000, 0, 25000, 43640, 100000, 436400}
FactorAngles ==
  {0, 10 * Degree7, 45 * Degree7, 60 * Degree7, 849000000, 850000000,
   850001000, 87 * Degree7, 899999000, 90 * Degree7, 100 * Degree7}

FactorCalls ==
  [fn : {"calculateFactor"}, rangeKm : FactorRanges, flightTime : FactorTimes,
   impactAngleDeg : FactorAngles]

\* One call of calculateFactor.
CallCalculateFactor ==
  /\ pc = "idle"
  /\ call.fn = "calculateFactor"
  /\ ret' = calculateFactor(call.rangeKm, call.flightTime, call.impactAngleDeg)
  /\ pc' = "done"
  /\ UNCHANGED << call, simVars, findVars, probes, rangeVars, mainVars, scrapeVars, outVars >>

\* ------------------------------------------------------------------------
\* calculateConvertedRange.  rangeKm in 1e-6 km (millimetres); one converted
\* unit is 30.3 m = 30300 mm.
\* ------------------------------------------------------------------------
ConvertedUnit == 30300

\* Math.trunc in the place of Math.round.
calculateConvertedRangeTruncated(rangeKm) == rangeKm \div ConvertedUnit

\* Math.round((rangeKm * 1000) / 30.3)
calculateConvertedRange(rangeKm) == (rangeKm + ConvertedUnit \div 2) \div ConvertedUnit

MaxConvertStep == 60

ConvertRanges ==
  {5000000 + 1500 * i : i \in 0..MaxConvertStep}
    \cup {10000, 50000, 15150000, 20060000, 25000000}

ConvertCalls == [fn : {"calculateConvertedRange"}, rangeKm : ConvertRanges]

\* One call of calculateConvertedRange.
CallConvertedRange ==
  /\ pc = "idle"
  /\ call.fn = "calculateConvertedRange"
  /\ ret' = calculateConvertedRange(call.rangeKm)
  /\ pc' = "done"
  /\ UNCHANGED << call, simVars, findVars, probes, rangeVars, mainVars, scrapeVars, outVars >>

\* ------------------------------------------------------------------------
\* generateWeaponConfig.  A config is the record of the values templated
\* into the XML text; pitches are in thousandths, bullet speeds in
\* hundredths.  The field shell is a ghost naming the shell type the config
\* was generated for (the text does not hold it).
\* ------------------------------------------------------------------------
Undefined == [defined |-> FALSE, value |-> 0]
Defined(v) == [defined |-> TRUE, value |-> v]

\* PITCH.shipOverrides?.[originalShipName]?.[shellType]
shipOverrides(originalShipName, shellType) ==
  IF originalShipName = "Cristoforo Colombo" /\ shellType = "sap" THEN Defined(45)
  ELSE Undefined

\* PITCH.ap[shipClass]
PitchAp(shipClass) ==
  CASE shipClass = "DD" -> Defined(0)
    [] shipClass = "BB" -> Defined(-20)
    [] shipClass = "BB_upper" -> Defined(-7)
    [] shipClass = "CA" -> Defined(-14)
    [] shipClass = "CL" -> Defined(-11)
    [] shipClass = "default" -> Defined(-13)
    [] OTHER -> Undefined

\* PITCH.other[shipClass]
PitchOther(shipClass) ==
  CASE shipClass = "DD" -> Defined(30)
    [] shipClass = "default" -> Defined(40)
    [] OTHER -> Undefined

\* a || b: a zero entry also gives way to b.
CoalesceFalsy(a, b) == IF a.defined /\ a.value # 0 THEN a ELSE b

\* a ?? b
Coalesce(a, b) == IF a.defined THEN a ELSE b

PitchOf(shipOverride, shellType, shipClass) ==
  IF shipOverride.defined THEN shipOverride.value
  ELSE IF shellType = "ap"
       THEN Coalesce(PitchAp(shipClass), PitchAp("default")).value
       ELSE Coalesce(PitchOther(shipClass), PitchOther("default")).value

\* The 0.5 km buffer added to maxRange.
RangeBuffer == 500000

\* factor.toFixed(2): thousandths to hundredths, to nearest (a thousandth
\* digit of 5 goes the way of the binary value of the double; the calls
\* below hold no such factor).
ToFixed2(factor) == (factor + 5) \div 10

\* Two blocks that both start at MinRange -1.
FireModesDetached(halfConv, maxConv, halfSpeed, maxSpeed, pitch, upperPitch) ==
  << [minRange |-> -1, maxRange |-> halfConv,
      bulletSpeed |-> halfSpeed, pitchToAdd |-> pitch],
     [minRange |-> -1, maxRange |-> maxConv,
      bulletSpeed |-> maxSpeed, pitchToAdd |-> upperPitch] >>

\* The two <FireMode> blocks of the template.
FireModes(halfConv, maxConv, halfSpeed, maxSpeed, pitch, upperPitch) ==
  << [minRange |-> -1, maxRange |-> halfConv,
      bulletSpeed |-> halfSpeed, pitchToAdd |-> pitch],
     [minRange |-> halfConv, maxRange |-> maxConv,
      bulletSpeed |-> maxSpeed, pitchToAdd |-> upperPitch] >>

WeaponText(shipName, shellType, rangeData, pitch) ==
  [weapon |-> shipName,
   shell |-> shellType,
   fireModes |-> FireModes(calculateConvertedRange(rangeData.halfRange),
                           calculateConvertedRange(rangeData.maxRange + RangeBuffer),
                           ToFixed2(rangeData.halfFactor),
                           ToFixed2(rangeData.maxFactor),
                           pitch,
                           IF shellType = "ap" THEN 0 ELSE pitch)]

generateWeaponConfig(shipName, shellType, rangeData, shipClass, originalShipName) ==
  WeaponText(shipName, shellType, rangeData,
             PitchOf(shipOverrides(originalShipName, shellType), shellType, shipClass))

ConfigHalfRanges == {5990000, 8338080, 10030000}
ConfigFactors == {37438, 52946}
ConfigClasses == {"BB", "CA", "CB", "CL", "DD"}
ConfigShips ==
  { [name |-> "Cristoforo_Colombo", original |-> "Cristoforo Colombo"],
    [name |-> "Montana", original |-> "Montana"] }

\* rangeData as main builds it: maxRange is twice halfRange.
ConfigRangeData ==
  { [halfRange |-> h, halfFactor |-> f, maxRange |-> 2 * h, maxFactor |-> f + 4001] :
      h \in ConfigHalfRanges, f \in ConfigFactors }

ConfigCalls ==
  [fn : {"generateWeaponConfig"}, ship : ConfigShips, shellType : {"ap", "he", "sap"},
   rangeData : ConfigRangeData, shipClass : ConfigClasses]

\* One call of generateWeaponConfig.
CallGenerateWeaponConfig ==
  /\ pc = "idle"
  /\ call.fn = "generateWeaponConfig"
  /\ ret' = generateWeaponConfig(call.ship.name, call.shellType, call.rangeData,
                                 call.shipClass, call.ship.original)
  /\ pc' = "done"
  /\ UNCHANGED << call, simVars, findVars, probes, rangeVars, mainVars, scrapeVars, outVars >>

\* ------------------------------------------------------------------------
\* assignToFiles.  shellResults is a function whose domain is the set of
\* shell types the ship has results for; heConfigs and apConfigs are the
\* arrays pushed to, in push order.
\* ------------------------------------------------------------------------
\* The SAP config goes to the AP file whenever there is one.
SapInApFileAlways(hasSAP, hasHE) == hasSAP

\* if (hasSAP && hasHE)
SapInApFile(hasSAP, hasHE) == hasSAP /\ hasHE

\* The type pushed to heConfigs: HE, else SAP, else AP.
HeFileType(hasHE, hasSAP, hasAP) ==
  IF hasHE THEN << "he" >>
  ELSE IF hasSAP THEN << "sap" >>
  ELSE IF hasAP THEN << "ap" >>
  ELSE << >>

\* The types pushed to apConfigs, in order.
ApFileTypes(hasHE, hasSAP, hasAP) ==
  (IF hasAP THEN << "ap" >> ELSE << >>)
    \o (IF SapInApFile(hasSAP, hasHE) THEN << "sap" >> ELSE << >>)

ConfigsOf(types, shipName, shellResults, shipClass, originalShipName) ==
  [i \in 1..Len(types) |->
     generateWeaponConfig(shipName, types[i], shellResults[types[i]],
                          shipClass, originalShipName)]

assignToFiles(shipName, shellResults, shipClass, originalShipName) ==
  [heConfigs |-> ConfigsOf(HeFileType("he" \in DOMAIN shellResults,
                                      "sap" \in DOMAIN shellResults,
                                      "ap" \in DOMAIN shellResults),
                           shipName, shellResults, shipClass, originalShipName),
   apConfigs |-> ConfigsOf(ApFileTypes("he" \in DOMAIN shellResults,
                                       "sap" \in DOMAIN shellResults,
                                       "ap" \in DOMAIN shellResults),
                           shipName, shellResults, shipClass, originalShipName)]

\* Range data of one shell type: each type has its own factors.
ShellRangeData(shellType, halfRange) ==
  [halfRange |-> halfRange,
   halfFactor |-> CASE shellType = "he" -> 37438
                    [] shellType = "ap" -> 41262
                    [] OTHER -> 39871,
   maxRange |-> 2 * halfRange,
   maxFactor |-> CASE shellType = "he" -> 29113
                   [] shellType = "ap" -> 35304
                   [] OTHER -> 32009]

AssignCalls ==
  { [fn |-> "assignToFiles", ship |-> s, shipClass |-> c,
     shellResults |-> [t \in types |-> ShellRangeData(t, h)]] :
      s \in ConfigShips, c \in ConfigClasses,
      types \in SUBSET {"he", "ap", "sap"}, h \in {5990000, 10030000} }

\* One call of assignToFiles.
CallAssignToFiles ==
  /\ pc = "idle"
  /\ call.fn = "assignToFiles"
  /\ ret' = assignToFiles(call.ship.name, call.shellResults,
                          call.shipClass, call.ship.original)
  /\ pc' = "done"
  /\ UNCHANGED << call, simVars, findVars, probes, rangeVars, mainVars, scrapeVars, outVars >>

\* ------------------------------------------------------------------------
\* scrapeShipData and validateScrapedData.  A table is a sequence of rows
\* whose numeric cells are already through parseNumeric (0 for an empty
\* cell); shipData and every shells object are sequences in insertion order.
\* ------------------------------------------------------------------------
SKIP_CLASSES == {"CV"}

\* String(name).trim().toLowerCase()... on the names of the tables below;
\* names that differ in more than case and outer blanks stay different.
normalizeForMatching(name) ==
  CASE name \in {"Gearing", "GEARING", " Gearing"} -> "gearing"
    [] name \in {"Montana", "montana"} -> "montana"
    [] OTHER -> name

\* (row.class || '').toUpperCase() on the class cells of the tables below.
ToUpperCase(class) ==
  CASE class = "dd" -> "DD"
    [] class = "bb" -> "BB"
    [] class = "cv" -> "CV"
    [] class = "ss" -> "SS"
    [] OTHER -> class

\* The rows of the params table that get a shipInfo entry: if (name && shipClass).
InfoRows(params) == SelectSeq(params, LAMBDA row : row.name # "" /\ row.class # "")

\* shipInfo as the sequence of its assignments, classes in upper case.
ShipInfo(params) ==
  [i \in 1..Len(InfoRows(params)) |->
     [InfoRows(params)[i] EXCEPT !.class = ToUpperCase(@)]]

HasInfo(info, name) ==
  \E i \in 1..Len(info) : normalizeForMatching(info[i].name) = normalizeForMatching(name)

\* shipInfo[normalizedName]: a later row of the table replaces an earlier one.
InfoOf(info, name) ==
  info[CHOOSE i \in 1..Len(info) :
         /\ normalizeForMatching(info[i].name) = normalizeForMatching(name)
         /\ \A k \in (i + 1)..Len(info) :
              normalizeForMatching(info[k].name) # normalizeForMatching(name)]

\* The position of the key in an object, 0 when absent.
KeyIndex(object, field, key) ==
  IF \E i \in 1..Len(object) : object[i][field] = key
  THEN CHOOSE i \in 1..Len(object) : object[i][field] = key
  ELSE 0

\* The shell type keeps the first row stored for it.
SetShellOnce(shells, at, type, shellProps) ==
  IF at = 0 THEN Append(shells, [type |-> type, shell |-> shellProps])
  ELSE shells

\* shells[type] = shellProps
SetShell(shells, at, type, shellProps) ==
  IF at = 0 THEN Append(shells, [type |-> type, shell |-> shellProps])
  ELSE [shells EXCEPT ![at].shell = shellProps]

\* Lines 274-286: initialize the ship entry if needed, add the shell type.
AddShell(data, at, info, type, row) ==
  IF at = 0
  THEN Append(data, [name |-> info.name,
                     class |-> info.class,
                     nation |-> row.nation,
                     baseMaxRange |-> info.range,
                     hasSpotter |-> info.spotter,
                     shells |-> << [type |-> type, shell |-> row.shell] >>])
  ELSE [data EXCEPT ![at].shells =
          SetShell(@, KeyIndex(@, "type", type), type, row.shell)]

\* The body of the loop over the rows of one shell table.
AcceptRow(data, info, type, row) ==
  IF row.ship = "" THEN data
  ELSE IF ~HasInfo(info, row.ship) THEN data
  ELSE IF InfoOf(info, row.ship).class \in SKIP_CLASSES THEN data
  ELSE IF row.shell.muzzleVelocity <= 0 \/ row.shell.mass <= 0 THEN data
  ELSE AddShell(data, KeyIndex(data, "name", InfoOf(info, row.ship).name),
                InfoOf(info, row.ship), type, row)

\* The row creates the ship entry: processedCount++.
CreatesEntry(data, info, row) ==
  /\ row.ship # ""
  /\ HasInfo(info, row.ship)
  /\ InfoOf(info, row.ship).class \notin SKIP_CLASSES
  /\ ~(row.shell.muzzleVelocity <= 0 \/ row.shell.mass <= 0)
  /\ KeyIndex(data, "name", InfoOf(info, row.ship).name) = 0

RECURSIVE ProcessRows(_, _, _, _, _)
ProcessRows(data, info, type, rows, n) ==
  IF n = 0 THEN data
  ELSE AcceptRow(ProcessRows(data, info, type, rows, n - 1), info, type, rows[n])

\* The number of entries created by the first n rows of one shell table.
RECURSIVE CountRows(_, _, _, _, _)
CountRows(data, info, type, rows, n) ==
  IF n = 0 THEN 0
  ELSE CountRows(data, info, type, rows, n - 1)
         + (IF CreatesEntry(ProcessRows(data, info, type, rows, n - 1), info, rows[n])
            THEN 1 ELSE 0)

AfterAp(t) == ProcessRows(<< >>, ShipInfo(t.info), "ap", t.ap, Len(t.ap))
AfterHe(t) == ProcessRows(AfterAp(t), ShipInfo(t.info), "he", t.he, Len(t.he))

\* The tables in the order ap, he, sap.
scrapeShipData(t) == ProcessRows(AfterHe(t), ShipInfo(t.info), "sap", t.sap, Len(t.sap))

\* processedCount when scrapeShipData returns.
ProcessedCount(t) ==
  CountRows(<< >>, ShipInfo(t.info), "ap", t.ap, Len(t.ap))
    + CountRows(AfterAp(t), ShipInfo(t.info), "he", t.he, Len(t.he))
    + CountRows(AfterHe(t), ShipInfo(t.info), "sap", t.sap, Len(t.sap))

ShellIssues(name, type, sh) ==
  { [ship |-> name, shellType |-> type, field |-> f] :
      f \in { g \in {"muzzleVelocity", "mass", "dragCoefficient", "caliber"} : sh[g] <= 0 } }

validateScrapedData(data) ==
  UNION { { [ship |-> data[i].name, shellType |-> "", field |-> "baseMaxRange"] :
              k \in { m \in {1} : data[i].baseMaxRange <= 0 } }
          \cup UNION { ShellIssues(data[i].name, data[i].shells[j].type,
                                   data[i].shells[j].shell) :
                         j \in 1..Len(data[i].shells) } :
          i \in 1..Len(data) }

\* ------------------------------------------------------------------------
\* scrapeShipData as a process: the browser is launched, the awaits of the
\* try block run in order and each may reject, the finally block closes the
\* browser.  tables holds what the pages would give.
\* ------------------------------------------------------------------------
mainRest == << tables, issues, mainPc, shipIndex, shellIndex, halfBallistics, halfFactor,
              results, successCount, errorCount, log >>

\* Nothing is scraped for sonar, written or thrown, and the process runs.
OutIdle ==
  /\ sonarData = [status |-> "pending", ships |-> << >>]
  /\ files = << >>
  /\ exitCode = 0
  /\ thrown = {}

\* scrapeShipData is not running.
ScrapeIdle ==
  /\ scrapePc = "off"
  /\ browser = "none"
  /\ closeCalls = 0
  /\ outcome = "none"
  /\ processedCount = 0
  /\ OutIdle

\* scrapeShipData before puppeteer.launch.
ScrapeStart ==
  /\ scrapePc = "launch"
  /\ browser = "none"
  /\ closeCalls = 0
  /\ outcome = "none"
  /\ processedCount = 0
  /\ OutIdle

\* The awaits of the try block: newPage, setViewport and the five scrapeTable
\* calls, then the processing of the rows.
ScrapeSteps == << "page", "viewport", "params", "consumables", "ap", "he", "sap", "process" >>

StepAfter(p) == ScrapeSteps[(CHOOSE i \in 1..Len(ScrapeSteps) : ScrapeSteps[i] = p) + 1]

\* An exception leaves the function without the finally block.
AfterThrowUnwound == "rejected"

\* An exception in the try block runs the finally block.
AfterThrow == "finally"

ScrapeLaunch ==
  /\ scrapePc = "launch"
  /\ browser' = "open"
  /\ scrapePc' = "page"
  /\ UNCHANGED << pc, simVars, findVars, probes, rangeVars, utilVars, outVars, mainRest, shipData,
                  closeCalls, outcome, processedCount >>

\* puppeteer.launch rejects: there is no browser and the try block is not entered.
ScrapeLaunchFails ==
  /\ scrapePc = "launch"
  /\ scrapePc' = "rejected"
  /\ UNCHANGED << pc, simVars, findVars, probes, rangeVars, utilVars, outVars, mainRest, shipData,
                  browser, closeCalls, outcome, processedCount >>

\* An await of the try block resolves.
ScrapeAwait ==
  /\ scrapePc \in {"page", "viewport", "params", "consumables", "ap", "he", "sap"}
  /\ scrapePc' = StepAfter(scrapePc)
  /\ UNCHANGED << pc, simVars, findVars, probes, rangeVars, utilVars, outVars, mainRest, shipData,
                  browser, closeCalls, outcome, processedCount >>

\* A step of the try block throws.
ScrapeThrow ==
  /\ scrapePc \in {"page", "viewport", "params", "consumables", "ap", "he", "sap", "process"}
  /\ outcome' = "throw"
  /\ scrapePc' = AfterThrow
  /\ UNCHANGED << pc, simVars, findVars, probes, rangeVars, utilVars, outVars, mainRest, shipData,
                  browser, closeCalls, processedCount >>

\* Lines 228-308: the rows are processed and the try block returns shipData.
ScrapeProcess ==
  /\ scrapePc = "process"
  /\ shipData' = scrapeShipData(tables)
  /\ processedCount' = ProcessedCount(tables)
  /\ outcome' = "return"
  /\ scrapePc' = "finally"
  /\ UNCHANGED << pc, simVars, findVars, probes, rangeVars, utilVars, outVars, mainRest, browser,
                  closeCalls >>

\* finally { await browser.close() }
ScrapeClose ==
  /\ scrapePc = "finally"
  /\ closeCalls' = closeCalls + 1
  /\ browser' = "closed"
  /\ scrapePc' = IF outcome = "return" THEN "returned" ELSE "rejected"
  /\ UNCHANGED << pc, simVars, findVars, probes, rangeVars, utilVars, outVars, mainRest, shipData,
                  outcome, processedCount >>

\* browser.close() is called and rejects.
ScrapeCloseFails ==
  /\ scrapePc = "finally"
  /\ closeCalls' = closeCalls + 1
  /\ scrapePc' = "rejected"
  /\ UNCHANGED << pc, simVars, findVars, probes, rangeVars, utilVars, outVars, mainRest, shipData,
                  browser, outcome, processedCount >>

\* A slow light shell without drag, and one without caliber.
ShellV == [muzzleVelocity |-> 40, caliber |-> 100, mass |-> 10, dragCoefficient |-> 0]
ShellC == [muzzleVelocity |-> 40, caliber |-> 0, mass |-> 10, dragCoefficient |-> 300]
ShellNoSpeed == [muzzleVelocity |-> 0, caliber |-> 100, mass |-> 10, dragCoefficient |-> 300]
ShellNoMass == [muzzleVelocity |-> 40, caliber |-> 100, mass |-> 0, dragCoefficient |-> 300]

ParamsTables ==
  { << [name |-> "Gearing", class |-> "dd", range |-> 50000, spotter |-> FALSE],
       [name |-> "Montana", class |-> "BB", range |-> 0, spotter |-> TRUE],
       [name |-> "Midway", class |-> "cv", range |-> 50000, spotter |-> FALSE],
       [name |-> "", class |-> "DD", range |-> 50000, spotter |-> FALSE],
       [name |-> "Kidd", class |-> "", range |-> 50000, spotter |-> FALSE] >>,
    << [name |-> "Gearing", class |-> "CA", range |-> 50000, spotter |-> FALSE],
       [name |-> "Gearing", class |-> "DD", range |-> 60000, spotter |-> FALSE],
       [name |-> "Midway", class |-> "CV", range |-> 0, spotter |-> FALSE] >>,
    << >> }

ApTables ==
  { << [ship |-> "Gearing", nation |-> "U.S.A.", shell |-> ShellS],
       [ship |-> "GEARING", nation |-> "", shell |-> ShellV],
       [ship |-> "Montana", nation |-> "U.S.A.", shell |-> ShellS],
       [ship |-> "Midway", nation |-> "U.S.A.", shell |-> ShellS],
       [ship |-> "Kidd", nation |-> "U.S.A.", shell |-> ShellS],
       [ship |-> "", nation |-> "", shell |-> ShellS] >>,
    << [ship |-> "Gearing", nation |-> "U.S.A.", shell |-> ShellS],
       [ship |-> "Gearing", nation |-> "U.S.A.", shell |-> ShellNoSpeed],
       [ship |-> "Montana", nation |-> "U.S.A.", shell |-> ShellNoMass] >>,
    << >> }

HeTables ==
  { << [ship |-> "Gearing", nation |-> "U.S.A.", shell |-> ShellV] >>,
    << [ship |-> "montana", nation |-> "U.S.A.", shell |-> ShellS],
       [ship |-> " Gearing", nation |-> "U.S.A.", shell |-> ShellC],
       [ship |-> "Midway", nation |-> "U.S.A.", shell |-> ShellS] >> }

SapTables ==
  { << >>,
    << [ship |-> "Gearing", nation |-> "U.S.A.", shell |-> ShellC],
       [ship |-> "Gearing", nation |-> "U.S.A.", shell |-> ShellS] >> }

\* The tables scrapeShipData is run on by itself.
ScrapeTables == [info : ParamsTables, ap : ApTables, he : HeTables, sap : SapTables]

\* ------------------------------------------------------------------------
\* main, phases 1 and 2
\* ------------------------------------------------------------------------
\* The scraped tables main is run on (ranges in 1e-6 km).
\* A ship whose range cell is empty, then a destroyer with a drag-free HE shell.
RangelessThenDestroyer ==
  [info |-> << [name |-> "Montana", class |-> "BB", range |-> 0, spotter |-> FALSE],
               [name |-> "Gearing", class |-> "DD", range |-> 50000, spotter |-> FALSE] >>,
   ap |-> << [ship |-> "Montana", nation |-> "U.S.A.", shell |-> ShellS],
             [ship |-> "Gearing", nation |-> "U.S.A.", shell |-> ShellS] >>,
   he |-> << [ship |-> "Montana", nation |-> "U.S.A.", shell |-> ShellV],
             [ship |-> "Gearing", nation |-> "U.S.A.", shell |-> ShellV] >>,
   sap |-> << >>]

\* Two sister destroyers and a submarine with a gun among rows the scraper
\* drops.
SistersAmongDropped ==
  [info |-> << [name |-> "Gearing", class |-> "DD", range |-> 50000, spotter |-> FALSE],
               [name |-> "Fletcher", class |-> "DD", range |-> 50000, spotter |-> FALSE],
               [name |-> "Midway", class |-> "CV", range |-> 50000, spotter |-> FALSE],
               [name |-> "I-56", class |-> "SS", range |-> 50000, spotter |-> FALSE] >>,
   ap |-> << [ship |-> "Gearing", nation |-> "U.S.A.", shell |-> ShellS],
             [ship |-> "", nation |-> "", shell |-> ShellS],
             [ship |-> "Midway", nation |-> "U.S.A.", shell |-> ShellS],
             [ship |-> "Fletcher", nation |-> "U.S.A.", shell |-> ShellS],
             [ship |-> "I-56", nation |-> "Japan", shell |-> ShellS] >>,
   he |-> << [ship |-> "Gearing", nation |-> "U.S.A.", shell |-> ShellNoSpeed],
             [ship |-> "Kidd", nation |-> "U.S.A.", shell |-> ShellS],
             [ship |-> "Fletcher", nation |-> "U.S.A.", shell |-> ShellNoMass] >>,
   sap |-> << [ship |-> "Fletcher", nation |-> "U.S.A.", shell |-> ShellC] >>]

Scenarios == {RangelessThenDestroyer, SistersAmongDropped}

\* main is not running.
MainIdle ==
  /\ tables = [info |-> << >>, ap |-> << >>, he |-> << >>, sap |-> << >>]
  /\ shipData = << >>
  /\ issues = {}
  /\ mainPc = "off"
  /\ shipIndex = 0
  /\ shellIndex = 0
  /\ halfBallistics = NoBallistics
  /\ halfFactor = Null
  /\ results = << >>
  /\ successCount = 0
  /\ errorCount = 0
  /\ log = << >>
  /\ ScrapeIdle

\* main before its first statement.
MainStart ==
  /\ tables \in Scenarios
  /\ shipData = << >>
  /\ issues = {}
  /\ mainPc = "start"
  /\ shipIndex = 0
  /\ shellIndex = 0
  /\ halfBallistics = NoBallistics
  /\ halfFactor = Null
  /\ results = << >>
  /\ successCount = 0
  /\ errorCount = 0
  /\ log = << >>
  /\ ScrapeStart

\* The halved range is taken to be the full range.
HalfRangeWhole(range) == range

\* modifiedRange / 2 (the ranges of Scenarios are even).
HalfRange(range) == range \div 2

\* A shell is recorded whatever its factors are.
FactorsIgnored(half, max) == TRUE

\* halfFactor !== null && maxFactor !== null
BothFactors(half, max) == ~half.null /\ ~max.null

\* Entry of getBallisticsAtRange(range, shellProps) called by main.
StartQuery(range, shellProps) ==
  /\ shell' = shellProps
  /\ targetRangeKm' = range
  /\ targetRangeM' = KmToM(range)
  /\ low' = BracketLow
  /\ high' = BracketHigh
  /\ probes' = << >>
  /\ pc' = "find"
  /\ UNCHANGED << caller, angle, kdrag, state, time, steps, firstStop, result, mid,
                  ballistics >>

QueryEntry(name, type, range, shellProps) ==
  [fn |-> "getBallisticsAtRange", ship |-> name, shellType |-> type, range |-> range,
   shell |-> shellProps, value |-> ballistics, probes |-> probes]

FactorEntry(name, type, range) ==
  [fn |-> "calculateFactor", ship |-> name, shellType |-> type, range |-> range,
   flightTime |-> ballistics.flightTime, impactAngle |-> ballistics.impactAngle,
   value |-> calculateFactor(range, ballistics.flightTime, ballistics.impactAngle)]

\* The object stored in results[shipName].shells[shellType].
ShellRecord(half, max, range, shellProps) ==
  [halfRange |-> HalfRange(range),
   halfFactor |-> half.value,
   halfFlightTime |-> halfBallistics.flightTime,
   halfImpactAngle |-> halfBallistics.impactAngle,
   maxRange |-> range,
   maxFactor |-> max.value,
   maxFlightTime |-> ballistics.flightTime,
   maxImpactAngle |-> ballistics.impactAngle,
   shellProps |-> shellProps]

\* scrapeShipData has returned; validateScrapedData, whose issues are only
\* printed.
MainScrape ==
  /\ mainPc = "start"
  /\ scrapePc = "returned"
  /\ issues' = validateScrapedData(shipData)
  /\ mainPc' = "sonar"
  /\ UNCHANGED << pc, simVars, findVars, probes, rangeVars, utilVars, scrapeVars, outVars,
                  tables, shipData, shipIndex, shellIndex, halfBallistics, halfFactor,
                  results, successCount, errorCount, log >>

\* What the steps outside the calculation loop leave alone.
calcVars ==
  << pc, simVars, findVars, probes, rangeVars, utilVars, scrapeVars, tables, shipData,
     issues, shellIndex, halfBallistics, halfFactor, results, successCount, errorCount,
     log, thrown >>

\* Lines 190-193: a rejection of main reaches the handler, which exits with
\* code 1.
Fatal ==
  /\ mainPc' = "exited"
  /\ exitCode' = 1

\* Line 17: scrapeShipData rejects, and so does main.
MainScrapeRejected ==
  /\ mainPc = "start"
  /\ scrapePc = "rejected"
  /\ Fatal
  /\ UNCHANGED << calcVars, shipIndex, sonarData, files >>

\* What scrapeSonarData settles to: the sonar of one submarine, or a rejection.
SonarOutcomes ==
  { [status |-> "resolved",
     ships |-> << [name |-> "I-56", class |-> "SS", nation |-> "Japan",
                   range |-> 6000000, waveSpeed |-> 500, bulletSpeed |-> 4000] >>],
    [status |-> "rejected", ships |-> << >>] }

\* Line 29: scrapeSonarData returns; lines 33-35 and the first ship.
MainSonar ==
  /\ mainPc = "sonar"
  /\ \E outcome_ \in SonarOutcomes :
       /\ outcome_.status = "resolved"
       /\ sonarData' = outcome_
  /\ shipIndex' = 1
  /\ mainPc' = "ship"
  /\ UNCHANGED << calcVars, files, exitCode >>

\* Line 29: scrapeSonarData rejects, and so does main.
MainSonarRejected ==
  /\ mainPc = "sonar"
  /\ \E outcome_ \in SonarOutcomes :
       /\ outcome_.status = "rejected"
       /\ sonarData' = outcome_
  /\ Fatal
  /\ UNCHANGED << calcVars, shipIndex, files >>

\* Lines 39-54: the modified range and the results entry of the next ship.
MainShip ==
  /\ mainPc = "ship"
  /\ shipIndex <= Len(shipData)
  /\ ship' = [name |-> shipData[shipIndex].name,
              class |-> shipData[shipIndex].class,
              nation |-> shipData[shipIndex].nation,
              baseMaxRange |-> shipData[shipIndex].baseMaxRange,
              hasSpotter |-> shipData[shipIndex].hasSpotter]
  /\ modifiedRange' = calculateModifiedRange(shipData[shipIndex].baseMaxRange,
                                             shipData[shipIndex].class,
                                             shipData[shipIndex].hasSpotter,
                                             shipData[shipIndex].name,
                                             shipData[shipIndex].nation)
  /\ results' = Append(results, [name |-> shipData[shipIndex].name,
                                 class |-> shipData[shipIndex].class,
                                 nation |-> shipData[shipIndex].nation,
                                 baseMaxRange |-> shipData[shipIndex].baseMaxRange,
                                 modifiedRange |-> modifiedRange',
                                 hasSpotter |-> shipData[shipIndex].hasSpotter,
                                 shells |-> << >>])
  /\ log' = Append(log, [fn |-> "calculateModifiedRange",
                         ship |-> shipData[shipIndex].name,
                         value |-> modifiedRange'])
  /\ shellIndex' = 1
  /\ mainPc' = "shell"
  /\ UNCHANGED << pc, simVars, findVars, probes, utilVars, scrapeVars, outVars, tables,
                  shipData, issues,
                  shipIndex, halfBallistics, halfFactor, successCount, errorCount >>

\* Lines 56-60: the next shell type, up to the call at half range.
MainShell ==
  /\ mainPc = "shell"
  /\ shellIndex <= Len(shipData[shipIndex].shells)
  /\ StartQuery(HalfRange(modifiedRange), shipData[shipIndex].shells[shellIndex].shell)
  /\ mainPc' = "half"
  /\ UNCHANGED << rangeVars, utilVars, scrapeVars, outVars, tables, shipData, issues,
                  shipIndex, shellIndex,
                  halfBallistics, halfFactor, results, successCount, errorCount, log >>

\* Lines 60-64: the half-range factor, up to the call at the modified range.
MainHalfReturn ==
  /\ mainPc = "half"
  /\ pc = "done"
  /\ halfBallistics' = ballistics
  /\ halfFactor' = calculateFactor(HalfRange(modifiedRange), ballistics.flightTime,
                                   ballistics.impactAngle)
  /\ log' = log \o << QueryEntry(shipData[shipIndex].name,
                                 shipData[shipIndex].shells[shellIndex].type,
                                 HalfRange(modifiedRange),
                                 shipData[shipIndex].shells[shellIndex].shell),
                      FactorEntry(shipData[shipIndex].name,
                                  shipData[shipIndex].shells[shellIndex].type,
                                  HalfRange(modifiedRange)) >>
  /\ StartQuery(modifiedRange, shipData[shipIndex].shells[shellIndex].shell)
  /\ mainPc' = "max"
  /\ UNCHANGED << rangeVars, utilVars, scrapeVars, outVars, tables, shipData, issues,
                  shipIndex, shellIndex,
                  results, successCount, errorCount >>

\* results with the shell record stored in the entry of the current ship,
\* which is the last one.
WithShell(res, type, record) ==
  [res EXCEPT ![Len(res)].shells = Append(@, [type |-> type, data |-> record])]

\* Lines 64-81: the factor at the modified range; the shell type is recorded
\* or a warning is printed.
MainMaxReturn ==
  /\ mainPc = "max"
  /\ pc = "done"
  /\ log' = log \o << QueryEntry(shipData[shipIndex].name,
                                 shipData[shipIndex].shells[shellIndex].type,
                                 modifiedRange,
                                 shipData[shipIndex].shells[shellIndex].shell),
                      FactorEntry(shipData[shipIndex].name,
                                  shipData[shipIndex].shells[shellIndex].type,
                                  modifiedRange) >>
  /\ results' =
       IF BothFactors(halfFactor, calculateFactor(modifiedRange, ballistics.flightTime,
                                                  ballistics.impactAngle))
       THEN WithShell(results, shipData[shipIndex].shells[shellIndex].type,
                      ShellRecord(halfFactor,
                                  calculateFactor(modifiedRange, ballistics.flightTime,
                                                  ballistics.impactAngle),
                                  modifiedRange,
                                  shipData[shipIndex].shells[shellIndex].shell))
       ELSE results
  /\ shellIndex' = shellIndex + 1
  /\ mainPc' = "shell"
  /\ pc' = "idle"
  /\ UNCHANGED << simVars, findVars, probes, rangeVars, utilVars, scrapeVars, outVars,
                  tables, shipData, issues,
                  shipIndex, halfBallistics, halfFactor, successCount, errorCount >>

\* Every ship counts as calculated.
HasShellsAlways(shipResult) == TRUE

\* Line 84: Object.keys(results[shipName].shells).length > 0
HasShells(shipResult) == Len(shipResult.shells) > 0

\* Lines 84-91: after the last shell type of the ship.
MainShipEnd ==
  /\ mainPc = "shell"
  /\ shellIndex > Len(shipData[shipIndex].shells)
  /\ IF HasShells(results[Len(results)])
     THEN /\ successCount' = successCount + 1
          /\ UNCHANGED << results, errorCount >>
     ELSE /\ results' = SubSeq(results, 1, Len(results) - 1)
          /\ errorCount' = errorCount + 1
          /\ UNCHANGED successCount
  /\ shipIndex' = shipIndex + 1
  /\ mainPc' = "ship"
  /\ UNCHANGED << pc, simVars, findVars, probes, rangeVars, utilVars, scrapeVars,
                  outVars, tables, shipData,
                  issues, shellIndex, halfBallistics, halfFactor, log >>

\* The exception is not counted.
CaughtUncounted(count) == count

\* Line 94: errorCount++
Caught(count) == count + 1

\* The exception leaves main.
AfterCatchRethrown(index) == [mainPc |-> "exited", shipIndex |-> index, exitCode |-> 1]

\* Lines 93-97: the catch block ends the iteration, and the loop goes on.
AfterCatch(index) == [mainPc |-> "ship", shipIndex |-> index + 1, exitCode |-> exitCode]

\* Lines 37-96: a call inside the try block throws, either
\* calculateModifiedRange (line 39), before the results entry exists, or
\* getBallisticsAtRange at half range (line 60), after it was created and
\* after the earlier shell types were recorded. The catch block counts the
\* ship and leaves results as it is.
MainThrow ==
  /\ \/ mainPc = "ship" /\ shipIndex <= Len(shipData)
     \/ mainPc = "shell" /\ shellIndex <= Len(shipData[shipIndex].shells)
  /\ thrown' = thrown \cup {[ship |-> shipData[shipIndex].name, position |-> mainPc]}
  /\ errorCount' = Caught(errorCount)
  /\ mainPc' = AfterCatch(shipIndex).mainPc
  /\ shipIndex' = AfterCatch(shipIndex).shipIndex
  /\ exitCode' = AfterCatch(shipIndex).exitCode
  /\ UNCHANGED << pc, simVars, findVars, probes, rangeVars, utilVars, scrapeVars, tables,
                  shipData, issues, shellIndex, halfBallistics, halfFactor, results,
                  successCount, log, sonarData, files >>

\* After the last ship.
MainCalculated ==
  /\ mainPc = "ship"
  /\ shipIndex > Len(shipData)
  /\ mainPc' = "calculated"
  /\ UNCHANGED << pc, simVars, findVars, probes, rangeVars, utilVars, scrapeVars,
                  outVars, tables, shipData,
                  issues, shipIndex, shellIndex, halfBallistics, halfFactor, results,
                  successCount, errorCount, log >>

\* ------------------------------------------------------------------------
\* main, phase 3: the config files
\* ------------------------------------------------------------------------

CONFIGS_DIR == "configs"

\* path.join(CONFIGS_DIR, name)
Join(dir, name) == [dir |-> dir, name |-> name]

heFilePath == Join(CONFIGS_DIR, "HE.cfg")
apFilePath == Join(CONFIGS_DIR, "AP.cfg")
summaryFilePath == Join(CONFIGS_DIR, "_summary.json")

\* normalizeShipName on the names of the scenarios: the exact replacements,
\* then spaces and hyphens to underscores.
normalizeShipName(name) ==
  CASE name = "I-56" -> "I56"
    [] name = "Zao" -> "Zao_1944"
    [] name = "Cristoforo Colombo" -> "Cristoforo_Colombo"
    [] name = "Henri IV" -> "Henri_IV"
    [] OTHER -> name

\* No class is kept out of the shell configs.
SkipsNoClass(class) == FALSE

\* Line 112: submarines get no shell configs.
SkipsShellConfig(class) == class = "SS"

\* shipResult.shells[shellType]
ShellDataOf(shells, shellType) ==
  shells[CHOOSE i \in 1..Len(shells) : shells[i].type = shellType].data

\* Lines 117-125: the shell results in the format of assignToFiles.
ShellResultsOf(shells) ==
  [t \in {shells[i].type : i \in 1..Len(shells)} |->
     [halfRange |-> ShellDataOf(shells, t).halfRange,
      halfFactor |-> ShellDataOf(shells, t).halfFactor,
      maxRange |-> ShellDataOf(shells, t).maxRange,
      maxFactor |-> ShellDataOf(shells, t).maxFactor]]

\* Lines 110-140: the configs of one ship for one of the two files.
ShipConfigs(shipResult, file) ==
  IF SkipsShellConfig(shipResult.class)
  THEN << >>
  ELSE assignToFiles(normalizeShipName(shipResult.name), ShellResultsOf(shipResult.shells),
                     shipResult.class, shipResult.name)[file]

RECURSIVE ShellConfigs(_, _)
ShellConfigs(shipResults, file) ==
  IF shipResults = << >>
  THEN << >>
  ELSE ShipConfigs(Head(shipResults), file) \o ShellConfigs(Tail(shipResults), file)

\* The sonar weapon of one submarine.
generateSonarConfig(shipName, bulletSpeed, range) ==
  [weapon |-> shipName, shell |-> "sonar", bulletSpeed |-> bulletSpeed, range |-> range]

\* Lines 146-161.
sonarConfigs(sonar) ==
  [i \in 1..Len(sonar) |->
     generateSonarConfig(normalizeShipName(sonar[i].name), sonar[i].bulletSpeed,
                         sonar[i].range)]

sonarResults(sonar) ==
  [i \in 1..Len(sonar) |->
     [name |-> sonar[i].name, class |-> sonar[i].class, nation |-> sonar[i].nation,
      range |-> sonar[i].range, waveSpeed |-> sonar[i].waveSpeed,
      bulletSpeed |-> sonar[i].bulletSpeed]]

\* Line 164.
allHeConfigs == ShellConfigs(results, "heConfigs") \o sonarConfigs(sonarData.ships)

apConfigs == ShellConfigs(results, "apConfigs")

\* Lines 178-181.
fullSummary == [ships |-> results, submarines |-> sonarResults(sonarData.ships)]

\* The file written at each position of main.
FileAt(position) ==
  CASE position = "he" -> [path |-> heFilePath, content |-> allHeConfigs]
    [] position = "ap" -> [path |-> apFilePath, content |-> apConfigs]
    [] position = "summary" -> [path |-> summaryFilePath, content |-> fullSummary]

\* The summary is written before AP.cfg.
AfterWriteSummaryFirst(position) ==
  CASE position = "he" -> "summary"
    [] position = "summary" -> "ap"
    [] position = "ap" -> "done"

\* Lines 171-186: the order of the writes.
AfterWrite(position) ==
  CASE position = "he" -> "ap"
    [] position = "ap" -> "summary"
    [] position = "summary" -> "done"

\* Line 105: the directory exists.
MainMkdir ==
  /\ mainPc = "calculated"
  /\ mainPc' = "he"
  /\ UNCHANGED << calcVars, shipIndex, sonarData, files, exitCode >>

\* Line 105: mkdir rejects, and so does main.
MainMkdirFails ==
  /\ mainPc = "calculated"
  /\ Fatal
  /\ UNCHANGED << calcVars, shipIndex, sonarData, files >>

\* Lines 171, 174 and 183: one writeFile.
MainWrite ==
  /\ mainPc \in {"he", "ap", "summary"}
  /\ files' = Append(files, FileAt(mainPc))
  /\ mainPc' = AfterWrite(mainPc)
  /\ UNCHANGED << calcVars, shipIndex, sonarData, exitCode >>

\* Lines 171, 174 and 183: writeFile rejects, and so does main.
MainWriteFails ==
  /\ mainPc \in {"he", "ap", "summary"}
  /\ Fatal
  /\ UNCHANGED << calcVars, shipIndex, sonarData, files >>

\* ------------------------------------------------------------------------
\* Specifications
\* ------------------------------------------------------------------------
Init == PhysicsIdle /\ RangeIdle /\ UtilIdle /\ MainIdle

\* getBallisticsAtRange queries.
Next ==
  \/ CallGetBallistics
  \/ FindIterate
  \/ SimStep
  \/ SimReturn
  \/ FindUpdate
  \/ FindReturn
  \/ BallisticsReturn

Spec == Init /\ [][Next]_vars

\* Direct simulateTrajectory calls.
NextSim == CallSimulate \/ SimStep \/ SimReturn

SpecSim == Init /\ [][NextSim]_vars

\* calculateModifiedRange on every ship of Ships.
InitRange ==
  /\ PhysicsIdle
  /\ ship \in Ships
  /\ modifiedRange = 0
  /\ UtilIdle
  /\ MainIdle

NextRange == CallModifiedRange
SpecRange == InitRange /\ [][NextRange]_vars

\* calculateFactor on every call of FactorCalls.
InitFactor == PhysicsIdle /\ RangeIdle /\ call \in FactorCalls /\ ret = NoReturn /\ MainIdle

NextFactor == CallCalculateFactor
SpecFactor == InitFactor /\ [][NextFactor]_vars

\* calculateConvertedRange on every call of ConvertCalls.
InitConvert == PhysicsIdle /\ RangeIdle /\ call \in ConvertCalls /\ ret = NoReturn /\ MainIdle

NextConvert == CallConvertedRange
SpecConvert == InitConvert /\ [][NextConvert]_vars

\* generateWeaponConfig on every call of ConfigCalls.
InitConfig == PhysicsIdle /\ RangeIdle /\ call \in ConfigCalls /\ ret = NoReturn /\ MainIdle

NextConfig == CallGenerateWeaponConfig
SpecConfig == InitConfig /\ [][NextConfig]_vars

\* assignToFiles on every call of AssignCalls.
InitAssign == PhysicsIdle /\ RangeIdle /\ call \in AssignCalls /\ ret = NoReturn /\ MainIdle

NextAssign == CallAssignToFiles
SpecAssign == InitAssign /\ [][NextAssign]_vars

\* scrapeShipData on every table set of ScrapeTables; every await settles.
InitScrape ==
  /\ PhysicsIdle /\ RangeIdle /\ UtilIdle
  /\ tables \in ScrapeTables
  /\ shipData = << >>
  /\ issues = {}
  /\ mainPc = "off"
  /\ shipIndex = 0
  /\ shellIndex = 0
  /\ halfBallistics = NoBallistics
  /\ halfFactor = Null
  /\ results = << >>
  /\ successCount = 0
  /\ errorCount = 0
  /\ log = << >>
  /\ ScrapeStart

NextScrape ==
  \/ ScrapeLaunch
  \/ ScrapeLaunchFails
  \/ ScrapeAwait
  \/ ScrapeThrow
  \/ ScrapeProcess
  \/ ScrapeClose
  \/ ScrapeCloseFails

SpecScrape == InitScrape /\ [][NextScrape]_vars /\ WF_vars(NextScrape)

\* main on every scenario of Scenarios.
InitMain == PhysicsIdle /\ RangeIdle /\ UtilIdle /\ MainStart

NextMain ==
  \/ ScrapeLaunch
  \/ ScrapeLaunchFails
  \/ ScrapeAwait
  \/ ScrapeThrow
  \/ ScrapeProcess
  \/ ScrapeClose
  \/ ScrapeCloseFails
  \/ MainScrape
  \/ MainScrapeRejected
  \/ MainSonar
  \/ MainSonarRejected
  \/ MainShip
  \/ MainShell
  \/ FindIterate
  \/ SimStep
  \/ SimReturn
  \/ FindUpdate
  \/ FindReturn
  \/ BallisticsReturn
  \/ MainHalfReturn
  \/ MainMaxReturn
  \/ MainShipEnd
  \/ MainCalculated
  \/ MainMkdir
  \/ MainMkdirFails
  \/ MainWrite
  \/ MainWriteFails

SpecMain == InitMain /\ [][NextMain]_vars

\* main where the calls of the try block may throw.
InitFault == InitMain /\ tables = RangelessThenDestroyer

NextFault ==
  \/ NextMain
  \/ MainThrow

SpecFault == InitFault /\ [][NextFault]_vars

\* ------------------------------------------------------------------------
\* Properties of simulateTrajectory
\* ------------------------------------------------------------------------
\* The ceiling in loop iterations: 120 s of 0.02 s steps.
StepCeiling == TimeCeiling * StepsPerSecond

\* C1: the integration loop of simulateTrajectory performs at most 6000
\* steps of 0.02 s for every launch angle and shell: the clock never passes
\* the 120 s ceiling.
C1_AtMost6000Steps ==
  pc \in {"sim", "done"} =>
    steps <= StepCeiling /\ TimeFixed(time) <= TimeCeiling * 10000

\* C2: a step is taken only from a state with y >= 0 and time < 120, no step
\* follows the first state that fails this test, and the returned range is
\* the x of that first state.
C2_StopsAtFirstFailingState ==
  /\ [](firstStop.set => steps = firstStop.steps)
  /\ [](pc = "done" => firstStop.set /\ result.range = firstStop.x)
  /\ [][steps' = steps + 1 => state.y >= 0 /\ TimeBelowCeiling(time)]_vars

\* A simulation that ran several steps and returned at the first state below
\* the launch altitude.
C2_Witness ==
  pc = "done" /\ steps > 100 /\ state.y < 0 /\ result.range = state.x

\* ------------------------------------------------------------------------
\* Properties of findLaunchAngle and getBallisticsAtRange
\* ------------------------------------------------------------------------
\* 0.001 degree and 45 degrees compared without division: w is at most
\* 0.001 degree wide iff w * 45000 <= 45 degrees.
WithinTolerance(w) == w * 45 <= AngleUnits45 \div 1000

QueryDone == pc = "done" /\ caller = "final"

\* C3: the bracket satisfies 0 <= low <= high <= 45 throughout; each
\* iteration simulates at mid = (low + high) / 2, sets low to mid when the
\* simulated range is below the target and high to mid otherwise, which
\* halves the width; the loop stops once the width is at most 0.001 degree
\* and the returned angle is the final (low + high) / 2, inside [0, 45].
C3_BisectionBracket ==
  /\ [](0 <= low /\ low <= high /\ high <= AngleUnits45)
  /\ [][pc = "find" /\ caller' = "find" =>
          /\ ~WithinTolerance(high - low)
          /\ 2 * mid' = low + high /\ angle' = mid']_vars
  /\ [][pc = "findupd" =>
          /\ IF result.range < targetRangeM
             THEN low' = mid /\ high' = high
             ELSE high' = mid /\ low' = low
          /\ 2 * (high' - low') = high - low]_vars
  /\ [][pc = "find" /\ caller' = "final" =>
          /\ WithinTolerance(high - low)
          /\ 2 * angle' = low + high
          /\ 0 <= angle' /\ angle' <= AngleUnits45]_vars

\* A bisection that has moved both bounds and has stopped.
C3_Witness ==
  /\ pc = "sim" /\ caller = "final"
  /\ low > 0 /\ high < AngleUnits45 /\ 2 * angle = low + high

\* C4: findLaunchAngle calls simulateTrajectory exactly 16 times whatever
\* the shell, target and simulated ranges are, and getBallisticsAtRange
\* calls it exactly 17 times.
C4_SixteenIterations ==
  /\ (pc = "find" /\ ~WiderThanTolerance(high - low)) => Len(probes) = 16
  /\ (pc = "find" /\ WiderThanTolerance(high - low)) => Len(probes) < 16
  /\ (pc \in {"sim", "ballret"} /\ caller = "final") =>
       Len(probes) = (IF pc = "sim" THEN 16 ELSE 17)
  /\ QueryDone => Len(probes) = 17

\* A finished query with its 17 simulations.
C4_Witness == QueryDone /\ Len(probes) = 17 /\ probes[17].angle = angle

\* The simulations made by the bisection loop, in call order.
Iterations == 1..(IF Len(probes) < 16 THEN Len(probes) ELSE 16)

AllBelowTarget == \A i \in Iterations : probes[i].range < targetRangeM
AllAtLeastTarget == \A i \in Iterations : probes[i].range >= targetRangeM

\* Some iteration simulated an angle in [0, 45] whose range is below the
\* target and another one an angle whose range is at least the target.
TargetBracketed ==
  /\ \E i \in Iterations : probes[i].range < targetRangeM
  /\ \E i \in Iterations : probes[i].range >= targetRangeM

\* C5: for a target between the simulated ranges at 0 and 45 degrees, the
\* range simulated at the returned angle differs from the target by at most
\* 0.1 percent.
C5_RangeWithinTenthPercent ==
  (QueryDone /\ TargetBracketed) =>
    Abs(result.range - targetRangeM) <= targetRangeM \div 1000

\* C6: for a fixed shell the simulated range is strictly increasing in the
\* launch angle over [0, 45] degrees.
C6_RangeStrictlyIncreasing ==
  shell = ShellA =>
    \A i, j \in 1..Len(probes) :
      probes[i].angle < probes[j].angle => probes[i].range < probes[j].range

\* C7: a target beyond the range at 45 degrees is not signalled: every
\* iteration moves low up, high stays at 45, and the angle returned and
\* re-simulated is within 0.001 degree of 45; symmetrically a target below
\* the range at 0 degrees yields an angle within 0.001 degree of 0.  The
\* query returns an ordinary result in both cases.
C7_UnreachableTargetSaturates ==
  caller \in {"find", "final"} =>
    /\ (AllBelowTarget /\ pc = "find") =>
         /\ high = AngleUnits45
         /\ Len(probes) > 0 => low = probes[Len(probes)].angle
    /\ (AllAtLeastTarget /\ pc = "find") =>
         /\ low = 0
         /\ Len(probes) > 0 => high = probes[Len(probes)].angle
    /\ (AllBelowTarget /\ caller = "final") =>
         angle < AngleUnits45 /\ WithinTolerance(AngleUnits45 - angle)
    /\ (AllAtLeastTarget /\ caller = "final") =>
         angle > 0 /\ WithinTolerance(angle)
    /\ ((AllBelowTarget \/ AllAtLeastTarget) /\ QueryDone) =>
         /\ ballistics # NoBallistics
         /\ ballistics.impactVelocity = result.impactVelocity

\* A finished query whose target no iteration reached.
C7_Witness ==
  /\ QueryDone /\ AllBelowTarget
  /\ result.range < targetRangeM
  /\ angle = AngleUnits45 - 1

\* C8: getBallisticsAtRange multiplies the range in km by 1000, solves for
\* the angle, re-simulates once at that angle and returns the
\* re-simulation's impact angle and impact velocity together with its raw
\* flight time (0.02 s per step) divided by 2.75, never the raw time.
C8_BallisticsFromResimulation ==
  /\ caller \in {"find", "final"} => targetRangeM = targetRangeKm * 10
  /\ QueryDone =>
       /\ Len(probes) = 17
       /\ probes[17].angle = Midpoint(low, high)
       /\ probes[17].range = state.x /\ probes[17].steps = steps
       /\ result.flightTime = steps * 200
       /\ ballistics.flightTime = RDiv(steps * 200 * TimeMultDen, TimeMultNum)
       /\ ballistics.flightTime # result.flightTime
       /\ ballistics.impactAngle = Atan2Deg(-state.vy, state.vx)
       /\ ballistics.impactVelocity = Hypot(state.vx, state.vy)

\* A finished query on a reachable target.
C8_Witness ==
  /\ QueryDone /\ TargetBracketed
  /\ steps > 1 /\ ballistics.flightTime > 0
  /\ ballistics.impactAngle > 0

\* ------------------------------------------------------------------------
\* Properties of calculateModifiedRange
\* ------------------------------------------------------------------------
RangeDone == pc = "done" /\ ship # NoShip

\* range x percent / 100, rounded down.
Percent(range, percent) ==
  (range \div 100) * percent + ((range % 100) * percent) \div 100

\* The override-table multiplier applied on top of a range.
WithOverride(range, shipName) ==
  IF shipName = "Henri IV" THEN Percent(range, 105) ELSE range

\* The range of a U.S.A. battleship when exactly one rule fires.
C9_NationRuleAlone ==
  (RangeDone /\ ship.nation = "U.S.A." /\ ship.class = "BB") =>
    modifiedRange = WithOverride(Percent(ship.baseMaxRange, 116), ship.name)

\* C9: the rules fire in precedence order; the DD rule excludes the other
\* two, but the nation rule does not exclude the spotter rule: a U.S.A.
\* battleship gets the APRM1 multiplier and, when hasSpotter is true, the
\* spotter multiplier on top of it (base x 1.16 x 1.2).
C9_NationThenSpotter ==
  (RangeDone /\ ship.nation = "U.S.A." /\ ship.class = "BB") =>
    modifiedRange =
      WithOverride(IF ship.hasSpotter
                   THEN Percent(Percent(ship.baseMaxRange, 116), 120)
                   ELSE Percent(ship.baseMaxRange, 116),
                   ship.name)

\* A U.S.A. battleship with a spotter plane.
C9_Witness ==
  /\ RangeDone /\ ship.nation = "U.S.A." /\ ship.class = "BB" /\ ship.hasSpotter
  /\ modifiedRange > Percent(ship.baseMaxRange, 120)

RuleRange ==
  IF ship.class = "DD" THEN Percent(ship.baseMaxRange, 120)
  ELSE IF ship.nation = "U.S.A." /\ ship.class = "BB"
       THEN IF ship.hasSpotter
            THEN Percent(Percent(ship.baseMaxRange, 116), 120)
            ELSE Percent(ship.baseMaxRange, 116)
       ELSE IF ship.class \in {"BB", "CA", "CB", "CL"} /\ ship.hasSpotter
            THEN Percent(ship.baseMaxRange, 120)
            ELSE ship.baseMaxRange

NoRuleFires ==
  /\ ship.class # "DD"
  /\ ~(ship.nation = "U.S.A." /\ ship.class = "BB")
  /\ ~(ship.class \in {"BB", "CA", "CB", "CL"} /\ ship.hasSpotter)

FactorDone == pc = "done" /\ call.fn = "calculateFactor"

\* flightTime * cos(impactAngle) * 1024 of the running call.
FactorDenominator ==
  MulQ(call.flightTime * 1024, CosDegrees(Abs(call.impactAngleDeg)))

\* The cases in which the claim has calculateFactor return null.
FactorRejected ==
  \/ call.rangeKm <= 0
  \/ call.flightTime <= 0
  \/ CosDegrees(Abs(call.impactAngleDeg)) <= 93630287

\* rangeKm * 1000 / (flightTime * cos) / 32, times 1000, rounded to nearest.
FactorFormulaOf(r, d) ==
  IF d <= 0 THEN -1
  ELSE MulDivExact(r, 320000, d).q
         + (IF 2 * MulDivExact(r, 320000, d).r >= d THEN 1 ELSE 0)

FactorFormula == FactorFormulaOf(call.rangeKm, FactorDenominator)

\* The unrounded factor is below 0.0005.
RawBelowHalf(r, d) == d > 0 /\ MulDivExact(r, 640000, d).q = 0

\* The statement with a positive result in every accepted case.
C12_FactorPositive ==
  FactorDone =>
    /\ ret.null <=> FactorRejected
    /\ ~ret.null => ret.value = FactorFormula /\ ret.value > 0

\* C12: calculateFactor returns null exactly when rangeKm <= 0, or
\* flightTime <= 0, or cos(impactAngle) < 0.0872; otherwise it returns
\* rangeKm * 1000 / (flightTime * cos(angle)) / 32 rounded to 3 decimals,
\* which is not negative, and is 0 exactly when the unrounded factor is
\* below 0.0005.
C12_FactorNullOrRounded ==
  FactorDone =>
    /\ ret.null <=> FactorRejected
    /\ ~ret.null =>
         /\ ret.value = FactorFormula
         /\ ret.value >= 0
         /\ ret.value = 0 <=> RawBelowHalf(call.rangeKm, FactorDenominator)

\* An accepted call with an inclined impact.
C12_Witness ==
  /\ FactorDone /\ ~ret.null /\ ret.value > 1000
  /\ call.impactAngleDeg = 10 * Degree7

\* C13: for positive range and flight time calculateFactor returns null for
\* every impact angle from 85 to 90 degrees, 85.0001 among them, and a
\* number for 84.9 degrees.
C13_RejectionBoundary ==
  (FactorDone /\ call.rangeKm > 0 /\ call.flightTime > 0) =>
    /\ (85 * Degree7 <= call.impactAngleDeg /\ call.impactAngleDeg <= 90 * Degree7)
         => ret.null
    /\ call.impactAngleDeg = 849000000 => ~ret.null /\ ret.value > 0

\* The call at 85.0001 degrees, rejected.
C13_Witness ==
  /\ FactorDone /\ call.rangeKm > 0 /\ call.flightTime > 0
  /\ call.impactAngleDeg = 850001000 /\ ret.null

\* ------------------------------------------------------------------------
\* Properties of calculateConvertedRange
\* ------------------------------------------------------------------------
ConvertDone == pc = "done" /\ call.fn = "calculateConvertedRange"

\* |ret * 30.3 / 1000 - rangeKm|, in 1e-6 km.
RoundTripError == Abs(ret * 30300 - call.rangeKm)

\* The round trip within 0.1 percent for every positive range.
C16_RoundTripTenthPercent ==
  (ConvertDone /\ call.rangeKm > 0) => RoundTripError * 1000 <= call.rangeKm

\* C16: calculateConvertedRange(rangeKm) * 30.3 / 1000 differs from rangeKm
\* by at most half a converted unit (0.01515 km), which is within 0.1
\* percent of rangeKm for ranges of 15.15 km and more.
C16_RoundTripHalfUnit ==
  (ConvertDone /\ call.rangeKm > 0) =>
    /\ RoundTripError <= 15150
    /\ call.rangeKm >= 15150000 => RoundTripError * 1000 <= call.rangeKm

\* 5.015 km converts to 166 units, which is 5.0298 km: 0.3 percent off.
C16_Witness ==
  /\ ConvertDone /\ call.rangeKm = 5015000 /\ ret = 166
  /\ RoundTripError * 1000 > call.rangeKm

\* ------------------------------------------------------------------------
\* Properties of generateWeaponConfig
\* ------------------------------------------------------------------------
ConfigDone == pc = "done" /\ call.fn = "generateWeaponConfig"

\* v is the range (1e-6 km) in whole units of 30.3 m, to nearest.
IsConverted(v, range) == Abs(v * 30300 - range) <= 15150

\* C20: a weapon config has exactly two FireMode blocks with contiguous
\* range intervals: the first from MinRange -1 to MaxRange =
\* convertedRange(halfRange), the second from MinRange = that same value to
\* MaxRange = convertedRange(maxRange + 0.5 km).
C20_ContiguousFireModes ==
  ConfigDone =>
    /\ Len(ret.fireModes) = 2
    /\ ret.fireModes[1].minRange = -1
    /\ IsConverted(ret.fireModes[1].maxRange, call.rangeData.halfRange)
    /\ ret.fireModes[2].minRange = ret.fireModes[1].maxRange
    /\ IsConverted(ret.fireModes[2].maxRange, call.rangeData.maxRange + 500000)

\* A config for 5.99 km and 11.98 km: blocks -1..198 and 198..412.
C20_Witness ==
  /\ ConfigDone /\ call.rangeData.halfRange = 5990000
  /\ ret.fireModes[1].maxRange = 198
  /\ ret.fireModes[2].minRange = 198
  /\ ret.fireModes[2].maxRange = 412

\* ------------------------------------------------------------------------
\* Properties of assignToFiles
\* ------------------------------------------------------------------------
AssignDone == pc = "done" /\ call.fn = "assignToFiles"

Has(shellType) == shellType \in DOMAIN call.shellResults

\* The number of configs of the array generated for the shell type.
CountOf(configs, shellType) ==
  Cardinality({ i \in 1..Len(configs) :
                  configs[i] = generateWeaponConfig(call.ship.name, shellType,
                                                    call.shellResults[shellType],
                                                    call.shipClass, call.ship.original) })

\* C19: the HE file gets exactly one config when the ship has any shell
\* type (HE, else SAP, else AP) and none otherwise; the AP file gets the AP
\* config whenever AP exists and the SAP config only when SAP and HE both
\* exist; so a SAP config is placed in exactly one of the two files.
C19_FileAssignment ==
  AssignDone =>
    /\ Len(ret.heConfigs) = IF DOMAIN call.shellResults = {} THEN 0 ELSE 1
    /\ Has("he") => ret.heConfigs[1].shell = "he"
    /\ ~Has("he") /\ Has("sap") => ret.heConfigs[1].shell = "sap"
    /\ ~Has("he") /\ ~Has("sap") /\ Has("ap") => ret.heConfigs[1].shell = "ap"
    /\ \A i \in 1..Len(ret.heConfigs) :
         CountOf(ret.heConfigs, ret.heConfigs[i].shell) = 1
    /\ { ret.apConfigs[i].shell : i \in 1..Len(ret.apConfigs) }
         = (IF Has("ap") THEN {"ap"} ELSE {})
             \cup (IF Has("sap") /\ Has("he") THEN {"sap"} ELSE {})
    /\ \A i \in 1..Len(ret.apConfigs) :
         CountOf(ret.apConfigs, ret.apConfigs[i].shell) = 1
    /\ Has("sap") => CountOf(ret.heConfigs, "sap") + CountOf(ret.apConfigs, "sap") = 1

\* A ship with SAP and AP but no HE: SAP is the HE file's config and the AP
\* file holds AP alone.
C19_Witness ==
  /\ AssignDone
  /\ DOMAIN call.shellResults = {"ap", "sap"}
  /\ Len(ret.heConfigs) = 1 /\ ret.heConfigs[1].shell = "sap"
  /\ Len(ret.apConfigs) = 1 /\ ret.apConfigs[1].shell = "ap"

\* ------------------------------------------------------------------------
\* Properties of main
\* ------------------------------------------------------------------------
MainDone == mainPc = "calculated"

\* The calls of fn that main has made for the ship.
EntriesOf(fn, name) == SelectSeq(log, LAMBDA e : e.fn = fn /\ e.ship = name)

\* The calls of fn that main has made for the shell type of the ship.
ShellEntries(fn, name, type) ==
  SelectSeq(log, LAMBDA e : e.fn = fn /\ e.ship = name /\ e.shellType = type)

\* Those of them made at the range.
RangeEntries(fn, name, type, range) ==
  SelectSeq(ShellEntries(fn, name, type), LAMBDA e : e.range = range)

\* results[name].shells has the shell type.
Recorded(name, type) ==
  \E i \in 1..Len(results) :
    /\ results[i].name = name
    /\ \E j \in 1..Len(results[i].shells) : results[i].shells[j].type = type

RecordedIffBoth(name, type, factors) ==
  IF Len(factors) = 2
  THEN Recorded(name, type) <=> (~factors[1].value.null /\ ~factors[2].value.null)
  ELSE ~Recorded(name, type)

\* C14: a null factor is a skip and not a fatal error: a shell type is
\* recorded for a ship exactly when both its half-range factor and its
\* max-range factor are non-null, and when the loop has ended every shell
\* type of every ship has had its two ballistics calls and its two factor
\* calls, whatever factors were null before it.
C14_NullFactorSkips ==
  \A i \in 1..Len(shipData) : \A j \in 1..Len(shipData[i].shells) :
    /\ RecordedIffBoth(shipData[i].name, shipData[i].shells[j].type,
                       ShellEntries("calculateFactor", shipData[i].name,
                                    shipData[i].shells[j].type))
    /\ MainDone =>
         /\ Len(ShellEntries("getBallisticsAtRange", shipData[i].name,
                             shipData[i].shells[j].type)) = 2
         /\ Len(ShellEntries("calculateFactor", shipData[i].name,
                             shipData[i].shells[j].type)) = 2

\* Montana's AP factors are null: AP is not recorded, Montana's HE and the
\* next ship are still processed, and Gearing's AP is recorded.
C14_Witness ==
  /\ MainDone
  /\ Len(shipData) = 2 /\ shipData[1].name = "Montana"
  /\ ShellEntries("calculateFactor", "Montana", "ap")[1].value.null
  /\ ~Recorded("Montana", "ap")
  /\ Len(ShellEntries("calculateFactor", "Montana", "he")) = 2
  /\ Recorded("Gearing", "ap")
  /\ ~ShellEntries("calculateFactor", "Gearing", "ap")[1].value.null
  /\ ~ShellEntries("calculateFactor", "Gearing", "ap")[2].value.null

\* One getBallisticsAtRange call and one calculateFactor call at the range,
\* the second fed by the first and giving the recorded factor.
OnePoint(queries, factors, factor, flightTime, impactAngle) ==
  /\ Len(queries) = 1
  /\ Len(factors) = 1
  /\ queries[1].value.flightTime = flightTime
  /\ queries[1].value.impactAngle = impactAngle
  /\ factors[1].flightTime = flightTime
  /\ factors[1].impactAngle = impactAngle
  /\ factors[1].value = Number(factor)

TwoPoints(entry, ranges, type, data) ==
  /\ Len(ranges) = 1
  /\ ranges[1].value = entry.modifiedRange
  /\ 2 * data.halfRange = entry.modifiedRange
  /\ data.maxRange = entry.modifiedRange
  /\ OnePoint(RangeEntries("getBallisticsAtRange", entry.name, type, data.halfRange),
              RangeEntries("calculateFactor", entry.name, type, data.halfRange),
              data.halfFactor, data.halfFlightTime, data.halfImpactAngle)
  /\ OnePoint(RangeEntries("getBallisticsAtRange", entry.name, type, data.maxRange),
              RangeEntries("calculateFactor", entry.name, type, data.maxRange),
              data.maxFactor, data.maxFlightTime, data.maxImpactAngle)

\* C15: for every recorded (ship, shell type) the two range points are
\* halfRange = modifiedRange / 2 and maxRange = modifiedRange, modifiedRange
\* being the value of the single calculateModifiedRange call for the ship,
\* and each factor comes from exactly one getBallisticsAtRange call and one
\* calculateFactor call at that range.
C15_TwoRangePoints ==
  \A i \in 1..Len(results) : \A j \in 1..Len(results[i].shells) :
    TwoPoints(results[i], EntriesOf("calculateModifiedRange", results[i].name),
              results[i].shells[j].type, results[i].shells[j].data)

\* Gearing's AP shell recorded at 0.03 km and 0.06 km.
C15_Witness ==
  /\ MainDone
  /\ \E i \in 1..Len(results) :
       /\ results[i].name = "Gearing"
       /\ results[i].modifiedRange = 60000
       /\ results[i].shells[1].type = "ap"
       /\ results[i].shells[1].data.halfRange = 30000
       /\ results[i].shells[1].data.maxRange = 60000

WellFormed(shellProps) ==
  /\ shellProps.muzzleVelocity > 0
  /\ shellProps.mass > 0
  /\ shellProps.caliber > 0
  /\ shellProps.dragCoefficient > 0

\* C17: main never calls getBallisticsAtRange with a shell whose
\* muzzleVelocity, mass, caliber or dragCoefficient is non-positive.
C17_MalformedShellRejected ==
  \A i \in 1..Len(log) :
    log[i].fn = "getBallisticsAtRange" => WellFormed(log[i].shell)

SameProbes(p, q) ==
  \A a \in 1..Len(p) : \A b \in 1..Len(q) : p[a].angle = q[b].angle => p[a] = q[b]

TablePitch(originalShipName, shellType, shipClass) ==
  IF originalShipName = "Cristoforo Colombo" /\ shellType = "sap" THEN 45
  ELSE IF shellType = "ap"
       THEN CASE shipClass = "DD" -> 0
              [] shipClass = "BB" -> -20
              [] shipClass = "CA" -> -14
              [] shipClass = "CL" -> -11
              [] OTHER -> -13
       ELSE IF shipClass = "DD" THEN 30 ELSE 40

C30_AtLeastOneStep ==
  /\ (pc = "sim" /\ steps = 0) => (state.y = 0 /\ LoopContinues(state, time))
  /\ pc = "done" =>
       /\ steps >= 1
       /\ result.flightTime = 200 * steps
       /\ angle = 0 =>
            /\ steps = 1
            /\ result.range > 0
            /\ result.range = rk4Step(InitialState(0, shell), StepsPerSecond, kdrag).x

\* The shot at 0 degrees has returned after one step of 0.02 s.
C30_Witness ==
  pc = "done" /\ angle = 0 /\ steps = 1 /\ result.flightTime = 200 /\ result.range > 0

\* ------------------------------------------------------------------------
\* Properties of scrapeShipData
\* ------------------------------------------------------------------------
ScrapeEnded == scrapePc \in {"returned", "rejected"}

\* C28: once the browser has been launched, browser.close() is eventually
\* called, and exactly once, whether the try block returns ship data or one
\* of its steps throws; it is never called without a launched browser.
C28_BrowserClosedOnce ==
  /\ [](closeCalls <= 1)
  /\ [](browser = "none" => closeCalls = 0)
  /\ [](ScrapeEnded /\ browser # "none" => closeCalls = 1)
  /\ (browser = "open" /\ closeCalls = 0) ~> (closeCalls = 1)

\* A step of the try block threw, the browser was closed and the call
\* rejected.
C28_Witness ==
  /\ scrapePc = "rejected"
  /\ outcome = "throw"
  /\ browser = "closed"
  /\ closeCalls = 1

\* The rows of the table that are valid rows of the ship.
ValidRows(rows, name) ==
  { k \in 1..Len(rows) :
      /\ rows[k].ship # ""
      /\ normalizeForMatching(rows[k].ship) = normalizeForMatching(name)
      /\ rows[k].shell.muzzleVelocity > 0
      /\ rows[k].shell.mass > 0 }

Last(indices) == CHOOSE k \in indices : \A m \in indices : m <= k

InParams(entry) ==
  \E k \in 1..Len(tables.info) :
    /\ tables.info[k].name = entry.name
    /\ tables.info[k].class # ""
    /\ ToUpperCase(tables.info[k].class) = entry.class

ShellFromLastValidRow(entry, type, shellProps) ==
  /\ shellProps.muzzleVelocity > 0
  /\ shellProps.mass > 0
  /\ ValidRows(tables[type], entry.name) # {}
  /\ shellProps = tables[type][Last(ValidRows(tables[type], entry.name))].shell

InResults(name) == \E i \in 1..Len(results) : results[i].name = name

\* The ships whose iteration of the loop has ended.
Processed == {i \in 1..Len(shipData) : i < shipIndex}

WrittenPaths == [i \in 1..Len(files) |-> files[i].path]

WriteOrder == << heFilePath, apFilePath, summaryFilePath >>

\* C27: HE.cfg, AP.cfg and _summary.json are written in that order, and
\* only after the ship scraping and the sonar scraping have returned and the
\* calculation loop has run through every ship; when either scrape rejects,
\* no file is written.
C27_WritesAfterAllPhases ==
  /\ Len(files) <= Len(WriteOrder)
  /\ WrittenPaths = SubSeq(WriteOrder, 1, Len(files))
  /\ files # << >> =>
       /\ scrapePc = "returned"
       /\ sonarData.status = "resolved"
       /\ shipIndex = Len(shipData) + 1
       /\ mainPc \in {"ap", "summary", "done", "exited"}
  /\ (scrapePc = "rejected" \/ sonarData.status = "rejected") => files = << >>

\* The three files of a run with two ships.
C27_Witness ==
  /\ mainPc = "done"
  /\ WrittenPaths = WriteOrder
  /\ Len(shipData) = 2
  /\ Len(files[1].content) > 0

\* The class of the ship in the params table.
ParamsClasses(name) ==
  {ToUpperCase(tables.info[k].class) :
     k \in {k \in 1..Len(tables.info) : tables.info[k].name = name}}

\* The shell weapons of a config file.
ShellWeapons(content) == SelectSeq(content, LAMBDA c : c.shell \in {"he", "ap", "sap"})

\* The ships of the params table that the weapon may be of.
ShipsOf(weapon) ==
  {tables.info[k].name :
     k \in {k \in 1..Len(tables.info) : normalizeShipName(tables.info[k].name) = weapon}}

\* C22: no ship of class SS or CV has a shell weapon in HE.cfg or AP.cfg.
C22_NoSubmarineOrCarrierShells ==
  \A i \in 1..Len(files) :
    files[i].path \in {heFilePath, apFilePath} =>
      \A j \in 1..Len(ShellWeapons(files[i].content)) :
        \A name \in ShipsOf(ShellWeapons(files[i].content)[j].weapon) :
          ParamsClasses(name) \cap {"SS", "CV"} = {}

\* AP.cfg is written with shell weapons while a submarine with a valid AP
\* shell is in results and a carrier with an AP row is in the params table.
C22_Witness ==
  /\ Len(files) >= 2
  /\ Len(ShellWeapons(files[2].content)) > 0
  /\ \E i \in 1..Len(results) : results[i].class = "SS" /\ Len(results[i].shells) > 0
  /\ "CV" \in ParamsClasses("Midway")
  /\ \E j \in 1..Len(tables.ap) : tables.ap[j].ship = "Midway"

\* The ships of Processed that are not in results.
Skipped == {i \in Processed : ~InResults(shipData[i].name)}

\* C26: for a ship whose base range is missing or zero every factor is
\* null; when its iteration has ended both factors of each of its shell
\* types have been calculated, the ship is not in results, it is counted in
\* errorCount, main has not exited, and the next ship is calculated; no
\* file has a shell weapon of the ship.
C26_RangelessShipSkipped ==
  \A i \in 1..Len(shipData) :
    shipData[i].baseMaxRange = 0 =>
      /\ \A k \in 1..Len(files) :
           files[k].path \in {heFilePath, apFilePath} =>
             \A j \in 1..Len(ShellWeapons(files[k].content)) :
               ShellWeapons(files[k].content)[j].weapon # normalizeShipName(shipData[i].name)
      /\ \A j \in 1..Len(EntriesOf("calculateFactor", shipData[i].name)) :
           EntriesOf("calculateFactor", shipData[i].name)[j].value.null
      /\ i \in Processed =>
           /\ \A j \in 1..Len(shipData[i].shells) :
                Len(ShellEntries("calculateFactor", shipData[i].name,
                                 shipData[i].shells[j].type)) = 2
           /\ ~InResults(shipData[i].name)
           /\ errorCount = Cardinality(Skipped)
           /\ mainPc \in {"ship", "shell"} => exitCode = 0
           /\ (i + 1 \in Processed \/ (i + 1 = shipIndex /\ mainPc = "shell")) =>
                Len(EntriesOf("calculateModifiedRange", shipData[i + 1].name)) = 1

\* Montana has no range: it is dropped and counted, and Gearing is
\* calculated after it.
C26_Witness ==
  /\ MainDone
  /\ Len(shipData) = 2
  /\ shipData[1].baseMaxRange = 0
  /\ Len(shipData[1].shells) = 2
  /\ ~InResults(shipData[1].name)
  /\ errorCount = 1
  /\ successCount = 1
  /\ Recorded(shipData[2].name, "ap")

\* ------------------------------------------------------------------------
\* Properties of the error handling of main
\* ------------------------------------------------------------------------

\* The calculation loop has run through every ship.
LoopEnded ==
  /\ sonarData.status = "resolved"
  /\ mainPc # "ship"
  /\ shipIndex = Len(shipData) + 1

\* The loop has been entered.
LoopEntered == scrapePc = "returned" /\ sonarData.status = "resolved"

ThrownShips == {t.ship : t \in thrown}

\* The step is the catch of an exception of the loop body.
CatchStep == thrown' # thrown

\* C23: an exception thrown while one ship is processed is caught in the
\* loop: the step adds one to errorCount, leaves successCount and the exit
\* code alone and goes on with the next ship, and every ship whose
\* iteration has ended was calculated unless its own calculation threw. The
\* process exits, and then with code 1, only when a
\* scrape has rejected or, after the loop, mkdir or a write has failed.
C23_ExceptionsStayInLoop ==
  /\ [][CatchStep =>
          /\ errorCount' = errorCount + 1
          /\ successCount' = successCount
          /\ exitCode' = 0
          /\ mainPc' = "ship"
          /\ shipIndex' = shipIndex + 1]_vars
  /\ [](exitCode \in {0, 1} /\ (exitCode = 1 <=> mainPc = "exited"))
  /\ [](mainPc = "exited" =>
          \/ scrapePc = "rejected"
          \/ sonarData.status = "rejected"
          \/ LoopEntered /\ shipIndex = Len(shipData) + 1)
  /\ [](\A i \in Processed :
          \/ [ship |-> shipData[i].name, position |-> "ship"] \in thrown
          \/ Len(EntriesOf("calculateModifiedRange", shipData[i].name)) = 1)

\* The first ship threw, the second was calculated and written.
C23_Witness ==
  /\ mainPc = "done"
  /\ Len(shipData) = 2
  /\ ThrownShips = {shipData[1].name}
  /\ Recorded(shipData[2].name, "ap")
  /\ errorCount = 1
  /\ exitCode = 0

\* C24: in the loop successCount + errorCount is the number of ships whose
\* iteration has ended, so after the loop it is the number of ships of
\* shipData; no step changes both counters, or one of them by more than
\* one, and a counter changes exactly when an iteration ends.
C24_EveryShipCountedOnce ==
  /\ [](LoopEntered => successCount + errorCount = Cardinality(Processed))
  /\ [](LoopEnded => successCount + errorCount = Len(shipData))
  /\ [][/\ successCount' \in {successCount, successCount + 1}
        /\ errorCount' \in {errorCount, errorCount + 1}
        /\ (successCount' + errorCount' = successCount + errorCount + 1)
             <=> (LoopEntered /\ shipIndex' = shipIndex + 1)]_vars

\* One ship on each of the three paths would need three ships; here the ship
\* without a range has no valid shell and the destroyer throws, and in other
\* runs the destroyer succeeds.
C24_Witness ==
  /\ LoopEnded
  /\ Len(shipData) = 2
  /\ ThrownShips = {shipData[2].name}
  /\ ~InResults(shipData[1].name)
  /\ errorCount = 2
  /\ successCount = 0

\* C25: after the loop every ship of results has a recorded shell type, and
\* results has successCount ships, also when an exception was caught after
\* the results entry of the ship was created.
C25_ResultsAreSuccesses ==
  LoopEnded =>
    /\ \A i \in 1..Len(results) : Len(results[i].shells) >= 1
    /\ Len(results) = successCount

====
